---- MODULE Spec2Model ----
(***************************************************************************)
(* A model of the RAG pipeline of RitualChain/rag-data-pipeline:           *)
(* VectorStore (src/classes/vector-store.ts), Retriever                    *)
(* (src/classes/retriever.ts) and RAGPipeline / LLM (pipeline.ts, llm.ts). *)
(*                                                                         *)
(* Conventions.                                                            *)
(*  - An optional JavaScript value is a sequence of length 0 (undefined)   *)
(*    or 1 (the value): None, Some(x).                                     *)
(*  - A similarity score s in [-1,1] is the integer 100*s, so the default  *)
(*    threshold 0.7 is 70.                                                 *)
(*  - An embedding is a pair of integers.                                  *)
(*  - An async call is a process; it takes one step per await.             *)
(***************************************************************************)
EXTENDS Integers, Sequences, FiniteSets, TLC

VARIABLES
    provider,         \* VectorStore.config.provider
    inMemoryStore,    \* VectorStore.inMemoryStore: a Map in insertion order
    astraCollection,  \* the records of the remote collection
    calls             \* per process: the async call it is running

vars == <<provider, inMemoryStore, astraCollection, calls>>

----------------------------------------------------------------------------
(* Optional values and sequence helpers                                    *)

None == << >>
Some(x) == <<x>>
IsSome(o) == Len(o) > 0
Val(o) == o[1]

Min(a, b) == IF a <= b THEN a ELSE b

\* Array.prototype.slice(0, n)
Slice(s, n) == SubSeq(s, 1, Min(n, Len(s)))

\* The sequences over S of length at most n
SeqUpTo(S, n) == UNION {[1..k -> S] : k \in 0..n}

----------------------------------------------------------------------------
(* Bounds and input domains                                                *)

\* The longest batch handed to addDocuments
MaxBatch == 2

Procs == {"p1"}

Ids == {"A", "B"}
Contents == {"", "tA", "tB"}
Queries == {"tA", "tB", "tC"}
SuppliedEmbeddings == {None, Some(<<3, 4>>)}

\* RAGPipelineConfig.retrieverTopK and .retrieverSimilarityThreshold
TopKConfigs == {None, Some(1), Some(2)}
ThresholdConfigs == {None, Some(0), Some(60), Some(100)}
PipelineConfigs ==
    [retrieverTopK : TopKConfigs,
     retrieverSimilarityThreshold : ThresholdConfigs]

\* What the language model may answer (content || '')
GenTexts == {"answer", ""}
MaxChunks == 2
MaxFormatDocs == 3

\* The documents a caller may hand to addDocuments
DocPool ==
    [id : Ids, content : Contents, embedding : SuppliedEmbeddings,
     similarity : {None}]

----------------------------------------------------------------------------
(* EmbeddingProvider                                                       *)

\* The vector the embedding model gives a text
EmbedOf(text) ==
    CASE text = "tA" -> <<1, 0>>
      [] text = "tB" -> <<0, 1>>
      [] text = "tC" -> <<12, 5>>
      [] OTHER -> <<3, 4>>

\* EmbeddingModel.generateEmbeddings: one vector per text, in order
GenerateEmbeddings(texts) == [i \in 1..Len(texts) |-> EmbedOf(texts[i])]

----------------------------------------------------------------------------
(* VectorStore.addDocuments                                                *)

\* JavaScript truthiness of doc.embedding and doc.content
HasEmbedding(doc) == IsSome(doc.embedding)
HasContent(doc) == doc.content # ""

NeedsEmbeddingIgnoringContent(doc) == ~HasEmbedding(doc)
NeedsEmbedding(doc) == ~HasEmbedding(doc) /\ HasContent(doc)

\* documents.filter(doc => !doc.embedding && doc.content)
DocsToEmbed(documents) == SelectSeq(documents, NeedsEmbedding)

\* docsToEmbed.map(doc => doc.content)
ContentsOf(documents) == [i \in 1..Len(documents) |-> documents[i].content]

\* The position in docsToEmbed of documents[i]
EmbedIndex(documents, i) == Len(DocsToEmbed(SubSeq(documents, 1, i)))

\* docsToEmbed.forEach((doc, index) => doc.embedding = embeddings[index]);
\* an index beyond the returned vectors reads undefined
AssignEmbeddingsByBatchPosition(documents, embeddings) ==
    [i \in 1..Len(documents) |->
        IF NeedsEmbedding(documents[i])
        THEN [documents[i] EXCEPT !.embedding =
                 IF i <= Len(embeddings) THEN Some(embeddings[i]) ELSE None]
        ELSE documents[i]]
AssignEmbeddings(documents, embeddings) ==
    [i \in 1..Len(documents) |->
        IF NeedsEmbedding(documents[i])
        THEN [documents[i] EXCEPT !.embedding =
                 IF EmbedIndex(documents, i) <= Len(embeddings)
                 THEN Some(embeddings[EmbedIndex(documents, i)])
                 ELSE None]
        ELSE documents[i]]

KeyIndex(store, id) == CHOOSE i \in 1..Len(store) : store[i].id = id

HasKey(store, id) == \E i \in 1..Len(store) : store[i].id = id

\* Map.prototype.set(doc.id, doc): replace in place, else append
MapSetAppendAlways(store, doc) == Append(store, doc)
MapSetKeepFirst(store, doc) ==
    IF HasKey(store, doc.id) THEN store ELSE Append(store, doc)
MapSet(store, doc) ==
    IF HasKey(store, doc.id)
    THEN [store EXCEPT ![KeyIndex(store, doc.id)] = doc]
    ELSE Append(store, doc)

\* for (const doc of documents) if (doc.embedding) store.set(doc.id, doc)
RECURSIVE InsertAllUnchecked(_, _)
InsertAllUnchecked(store, documents) ==
    IF documents = << >> THEN store
    ELSE InsertAllUnchecked(MapSet(store, Head(documents)), Tail(documents))
RECURSIVE InsertAllStopAtMissing(_, _)
InsertAllStopAtMissing(store, documents) ==
    IF documents = << >> \/ ~HasEmbedding(Head(documents)) THEN store
    ELSE InsertAllStopAtMissing(MapSet(store, Head(documents)),
                                Tail(documents))
RECURSIVE InsertAll(_, _)
InsertAll(store, documents) ==
    IF documents = << >> THEN store
    ELSE InsertAll(
            IF HasEmbedding(Head(documents))
            THEN MapSet(store, Head(documents)) ELSE store,
            Tail(documents))

\* Whether the optional property doc.metadata is set; documents of the
\* pools that have no metadata field leave it undefined
HasMetadata(doc) == "metadata" \in DOMAIN doc /\ IsSome(doc.metadata)

\* ({_id: doc.id, text: doc.content, $vector: doc.embedding,
\*   ...(doc.metadata && { metadata: doc.metadata })})
AstraRecordWithoutMetadata(doc) ==
    [id |-> doc.id, text |-> doc.content, vector |-> Val(doc.embedding)]
AstraRecord(doc) ==
    IF HasMetadata(doc)
    THEN [id |-> doc.id, text |-> doc.content,
          vector |-> Val(doc.embedding), metadata |-> Val(doc.metadata)]
    ELSE [id |-> doc.id, text |-> doc.content, vector |-> Val(doc.embedding)]

\* documents.filter(doc => doc.embedding).map(doc => ({_id, text, $vector,
\* metadata}))
AstraDocs(documents) ==
    LET embedded == SelectSeq(documents, HasEmbedding)
    IN  [i \in 1..Len(embedded) |-> AstraRecord(embedded[i])]

\* No record has an _id the collection holds, and no two have the same
AstraAccepts(collection, records) ==
    /\ \A i \in 1..Len(records) : ~HasKey(collection, records[i].id)
    /\ \A i, j \in 1..Len(records) : records[i].id = records[j].id => i = j

\* The collection after an insertMany(records) that resolved: it is keyed
\* by _id, so of the records those whose _id it does not hold yet are in it
RECURSIVE AstraInsertMany(_, _)
AstraInsertMany(collection, records) ==
    IF records = << >> THEN collection
    ELSE AstraInsertMany(
            IF HasKey(collection, Head(records).id) THEN collection
            ELSE Append(collection, Head(records)),
            Tail(records))

----------------------------------------------------------------------------
(* VectorStore.similaritySearch                                            *)

\* In-memory: Array.from(this.inMemoryStore.values()).slice(0, topK)
InMemorySearch(store, queryEmbedding, topK) == Slice(store, topK)

Dot(u, v) == u[1] * v[1] + u[2] * v[2]

Norm(v) == CHOOSE n \in 0..Dot(v, v) : n * n = Dot(v, v)

\* The cosine metric of the remote collection, times 100
CosineSimilarity(u, v) == (100 * Dot(u, v)) \div (Norm(u) * Norm(v))

Perms(n) == {f \in [1..n -> 1..n] : \A i, j \in 1..n : f[i] = f[j] => i = j}

\* find({}, {sort: {$vector: q}, limit: topK, includeSimilarity: true}):
\* the topK records by descending similarity, ties in any order
AstraFind(collection, queryEmbedding, topK) ==
    { Slice([i \in 1..Len(collection) |-> collection[f[i]]], topK) :
        f \in { g \in Perms(Len(collection)) :
                  \A i, j \in 1..Len(collection) :
                      i <= j =>
                        CosineSimilarity(queryEmbedding, collection[g[i]].vector)
                        >= CosineSimilarity(queryEmbedding, collection[g[j]].vector) } }

\* astraResults.map(astraDoc => ({id, content, embedding, metadata,
\* similarity})); $vector is in the result only when the collection
\* projects it, and metadata is undefined for a record that has none
AstraResultDoc(record, queryEmbedding, withVector) ==
    LET similarity ==
            Some(CosineSimilarity(queryEmbedding, record.vector))
        embedding == IF withVector THEN Some(record.vector) ELSE None
    IN  IF "metadata" \in DOMAIN record
        THEN [id |-> record.id, content |-> record.text,
              embedding |-> embedding, similarity |-> similarity,
              metadata |-> Some(record.metadata)]
        ELSE [id |-> record.id, content |-> record.text,
              embedding |-> embedding, similarity |-> similarity]

AstraResultDocs(records, queryEmbedding, withVector) ==
    [i \in 1..Len(records) |->
        AstraResultDoc(records[i], queryEmbedding, withVector)]

----------------------------------------------------------------------------
(* Retriever                                                               *)

DefaultTopK == 5
DefaultSimilarityThreshold == 70

\* JavaScript's (x || d) on an optional number: undefined and 0 are falsy
OrDefault(o, d) == IF IsSome(o) /\ Val(o) # 0 THEN Val(o) ELSE d

\* Retriever.constructor
Retriever(config) ==
    [topK |-> OrDefault(config.topK, DefaultTopK),
     similarityThreshold |->
         OrDefault(config.similarityThreshold, DefaultSimilarityThreshold)]

\* RAGPipeline.constructor: this.retriever = new Retriever({...})
PipelineRetriever(config) ==
    Retriever([topK |-> config.retrieverTopK,
               similarityThreshold |->
                   Some(OrDefault(config.retrieverSimilarityThreshold,
                                  DefaultSimilarityThreshold))])

\* The predicate of retrievedDocuments.filter(...)
IsRelevantInverted(doc, threshold) ==
    IsSome(doc.similarity) => Val(doc.similarity) <= threshold
IsRelevant(doc, threshold) ==
    IsSome(doc.similarity) => Val(doc.similarity) >= threshold

FilterRelevantBestLast(documents, threshold) ==
    LET kept == SelectSeq(documents, LAMBDA d : IsRelevant(d, threshold))
    IN  [k \in 1..Len(kept) |-> kept[Len(kept) + 1 - k]]
FilterRelevant(documents, threshold) ==
    SelectSeq(documents, LAMBDA d : IsRelevant(d, threshold))

\* A string as the sequence of its non-empty pieces
Str(piece) == IF piece = "" THEN << >> ELSE <<piece>>

Separator == "\n\n---\n\n"

\* documents.map(doc => doc.content).join(Separator)
RECURSIVE FormatContextSkippingEmpty(_)
RECURSIVE FormatContext(_)
FormatContextSkippingEmpty(documents) ==
    IF documents = << >> THEN << >>
    ELSE IF Len(documents) = 1 THEN Str(documents[1].content)
    ELSE IF documents[1].content = ""
    THEN FormatContextSkippingEmpty(Tail(documents))
    ELSE Str(documents[1].content) \o <<Separator>>
            \o FormatContextSkippingEmpty(Tail(documents))
FormatContext(documents) ==
    IF documents = << >> THEN << >>
    ELSE IF Len(documents) = 1 THEN Str(documents[1].content)
    ELSE Str(documents[1].content) \o <<Separator>>
            \o FormatContext(Tail(documents))

----------------------------------------------------------------------------
(* RAGPipeline                                                             *)

\* The default promptTemplate
PromptTemplate(context, query) ==
    <<"Context information is provided below.\n---------------------\n">>
        \o context
        \o <<"\n---------------------\nGiven the context information and not prior knowledge, answer the query.\nQuery: ">>
        \o Str(query) \o <<"\nAnswer:">>

NoContextText ==
    "I couldn't find any specific information related to your query in my current knowledge base."

NoContextResponse ==
    [text |-> NoContextText, sourceDocuments |-> << >>,
     finishReason |-> "no_context"]

----------------------------------------------------------------------------
(* Calls                                                                   *)

IdleCall ==
    [kind |-> "idle", pc |-> "idle", error |-> "none",
     input |-> << >>, documents |-> << >>,
     preStore |-> << >>, preCollection |-> << >>,
     nEmbed |-> 0, embedArgs |-> << >>, nInsertMany |-> 0,
     insertArgs |-> << >>,
     query |-> "", config |-> None, retriever |-> None,
     queryEmbedding |-> None, searched |-> None, relevant |-> None,
     prompt |-> None, response |-> None,
     nSearch |-> 0, nGenerate |-> 0,
     context |-> None, llmResponse |-> None,
     chunks |-> << >>, nGenerateStream |-> 0,
     entry |-> "", args |-> None, dataLoader |-> None,
     nLoad |-> 0, loaded |-> None,
     nAddDocuments |-> 0, addArgs |-> << >>, nRetrieve |-> 0,
     urls |-> << >>, i |-> 0, successCount |-> 0, failureCount |-> 0,
     scraped |-> << >>, saved |-> << >>,
     stages |-> << >>, llmChunks |-> << >>, embedResult |-> None,
     ticket |-> 0]

CanStart(p) == calls[p].pc = "idle"

Finish(c) == [c EXCEPT !.pc = "done"]

Fail(c, err) == [c EXCEPT !.pc = "done", !.error = err]

\* vector-store.ts:156-186, the switch on config.provider
AddStore(p, c) ==
    IF provider = "in-memory"
    THEN /\ inMemoryStore' = InsertAll(inMemoryStore, c.documents)
         /\ calls' = [calls EXCEPT ![p] = Finish(c)]
         /\ UNCHANGED astraCollection
    ELSE /\ calls' = [calls EXCEPT ![p] =
                IF AstraDocs(c.documents) # << >>
                THEN [c EXCEPT !.pc = "inserting", !.nInsertMany = @ + 1,
                               !.insertArgs =
                                   Append(@, AstraDocs(c.documents))]
                ELSE Finish(c)]
         /\ UNCHANGED <<inMemoryStore, astraCollection>>

\* VectorStore.addDocuments(docs) up to its first await, invoked within
\* the call c0 of process p
AddDocumentsFrom(p, c0, docs) ==
    LET c == [c0 EXCEPT !.kind = "add", !.input = docs,
                        !.documents = docs,
                        !.preStore = inMemoryStore,
                        !.preCollection = astraCollection,
                        !.nAddDocuments = @ + 1,
                        !.addArgs = Append(@, docs)]
    IN  IF Len(docs) = 0
        THEN /\ calls' = [calls EXCEPT ![p] = Finish(c)]
             /\ UNCHANGED <<inMemoryStore, astraCollection>>
        ELSE IF Len(DocsToEmbed(docs)) > 0
        THEN /\ calls' = [calls EXCEPT ![p] =
                    [c EXCEPT !.pc = "embedding", !.nEmbed = @ + 1,
                              !.embedArgs =
                                  Append(@, ContentsOf(DocsToEmbed(docs)))]]
             /\ UNCHANGED <<inMemoryStore, astraCollection>>
        ELSE AddStore(p, c)

\* A caller invokes VectorStore.addDocuments(docs)
AddStart(p, docs) ==
    /\ CanStart(p)
    /\ AddDocumentsFrom(p, IdleCall, docs)
    /\ UNCHANGED provider

\* RAGPipeline.addDocuments(docs): await this.vectorStore.addDocuments(docs)
PipelineAddDocuments(p, docs) ==
    /\ CanStart(p)
    /\ AddDocumentsFrom(p, [IdleCall EXCEPT !.entry = "addDocuments",
                                            !.args = Some(docs)], docs)
    /\ UNCHANGED provider

\* this.config.path || this.config.url || 'unknown'
SourceOf(config) ==
    IF IsSome(config.path) /\ Val(config.path) # "" THEN Val(config.path)
    ELSE IF IsSome(config.url) /\ Val(config.url) # "" THEN Val(config.url)
    ELSE "unknown"

\* DataLoader.loadAndChunk: the two placeholder documents
LoadAndChunk(config) ==
    << [id |-> "doc1",
        content |-> "This is the first chunk of data from the source.",
        embedding |-> None, similarity |-> None,
        metadata |-> Some([source |-> SourceOf(config)])],
       [id |-> "doc2",
        content |-> "This is the second chunk of data, processed and ready.",
        embedding |-> None, similarity |-> None,
        metadata |-> Some([source |-> SourceOf(config)])] >>

\* RAGPipeline.ingestData on a pipeline constructed with a dataLoader
\* (Some(config), the DataLoader's config) or without one (None), up to
\* await this.dataLoader.loadAndChunk()
IngestStart(p, dataLoader) ==
    /\ CanStart(p)
    /\ LET c == [IdleCall EXCEPT !.kind = "ingest", !.entry = "ingestData",
                                 !.dataLoader = dataLoader,
                                 !.preStore = inMemoryStore,
                                 !.preCollection = astraCollection]
       IN  calls' = [calls EXCEPT ![p] =
               IF ~IsSome(dataLoader) THEN Finish(c)
               ELSE [c EXCEPT !.pc = "loading", !.nLoad = @ + 1]]
    /\ UNCHANGED <<provider, inMemoryStore, astraCollection>>

\* loadAndChunk resolves with documents: ingestData passes them on to
\* this.vectorStore.addDocuments
IngestLoadedWithoutFirst(p, documents) ==
    /\ calls[p].kind = "ingest"
    /\ calls[p].pc = "loading"
    /\ AddDocumentsFrom(p, [calls[p] EXCEPT !.loaded = Some(documents)],
                        Tail(documents))
    /\ UNCHANGED provider
IngestLoaded(p, documents) ==
    /\ calls[p].kind = "ingest"
    /\ calls[p].pc = "loading"
    /\ AddDocumentsFrom(p, [calls[p] EXCEPT !.loaded = Some(documents)],
                        documents)
    /\ UNCHANGED provider

\* await generateEmbeddings(contents) resolves, addDocuments runs on
AddEmbeddedOneAtATime(p) ==
    /\ calls[p].kind = "add"
    /\ calls[p].pc = "embedding"
    /\ LET c == calls[p]
           embeddings == GenerateEmbeddings(ContentsOf(DocsToEmbed(c.documents)))
           assigned == AssignEmbeddings(c.documents, embeddings)
           k == c.nInsertMany + 1
       IN  /\ inMemoryStore' = InsertAll(inMemoryStore, <<assigned[k]>>)
           /\ calls' = [calls EXCEPT ![p] =
                  IF k = Len(assigned)
                  THEN Finish([c EXCEPT !.documents = assigned])
                  ELSE [c EXCEPT !.documents = assigned, !.nInsertMany = k]]
    /\ UNCHANGED <<provider, astraCollection>>
AddEmbedded(p) ==
    /\ calls[p].kind = "add"
    /\ calls[p].pc = "embedding"
    /\ LET c == calls[p]
           embeddings == GenerateEmbeddings(ContentsOf(DocsToEmbed(c.documents)))
       IN  AddStore(p, [c EXCEPT !.documents = AssignEmbeddings(@, embeddings),
                                 !.embedResult = Some(embeddings)])
    /\ UNCHANGED provider

\* await generateEmbeddings(contents) rejects
AddEmbedFailedAfterStoringSupplied(p) ==
    /\ calls[p].kind = "add"
    /\ calls[p].pc = "embedding"
    /\ calls' = [calls EXCEPT ![p] = Fail(@, "EmbeddingError")]
    /\ inMemoryStore' = IF provider = "in-memory"
                        THEN InsertAll(inMemoryStore, calls[p].documents)
                        ELSE inMemoryStore
    /\ astraCollection' = IF provider = "in-memory"
                          THEN astraCollection
                          ELSE astraCollection \o AstraDocs(calls[p].documents)
    /\ UNCHANGED provider
AddEmbedFailed(p) ==
    /\ calls[p].kind = "add"
    /\ calls[p].pc = "embedding"
    /\ calls' = [calls EXCEPT ![p] = Fail(@, "EmbeddingError")]
    /\ UNCHANGED <<provider, inMemoryStore, astraCollection>>

\* await astraCollection.insertMany(astraDocs) resolves
AddInserted(p) ==
    /\ calls[p].kind = "add"
    /\ calls[p].pc = "inserting"
    /\ astraCollection' =
           AstraInsertMany(astraCollection, AstraDocs(calls[p].documents))
    /\ calls' = [calls EXCEPT ![p] = Finish(@)]
    /\ UNCHANGED <<provider, inMemoryStore>>

\* await astraCollection.insertMany(astraDocs) rejects
AddInsertFailed(p) ==
    /\ calls[p].kind = "add"
    /\ calls[p].pc = "inserting"
    /\ calls' = [calls EXCEPT ![p] = Fail(@, "StorageError")]
    /\ UNCHANGED <<provider, inMemoryStore, astraCollection>>

----------------------------------------------------------------------------
(* RAGPipeline.query on a pipeline constructed with config                 *)

\* query calls retrieve, which runs up to await generateEmbeddings([query])
QueryStart(p, config, q) ==
    /\ CanStart(p)
    /\ calls' = [calls EXCEPT ![p] =
           [IdleCall EXCEPT !.kind = "query", !.pc = "embedding",
                            !.stages = <<"Idle", "Embedding">>,
                            !.nRetrieve = @ + 1,
                            !.query = q, !.config = Some(config),
                            !.retriever = Some(PipelineRetriever(config)),
                            !.nEmbed = @ + 1,
                            !.embedArgs = Append(@, <<q>>)]]
    /\ UNCHANGED <<provider, inMemoryStore, astraCollection>>

\* The consumer's first next() on queryStream(q): the generator body runs
\* retrieve up to await generateEmbeddings([query])
StreamStart(p, config, q) ==
    /\ CanStart(p)
    /\ calls' = [calls EXCEPT ![p] =
           [IdleCall EXCEPT !.kind = "stream", !.pc = "embedding",
                            !.stages = <<"Idle", "Embedding">>,
                            !.nRetrieve = @ + 1,
                            !.query = q, !.config = Some(config),
                            !.retriever = Some(PipelineRetriever(config)),
                            !.nEmbed = @ + 1,
                            !.embedArgs = Append(@, <<q>>)]]
    /\ UNCHANGED <<provider, inMemoryStore, astraCollection>>

\* if (relevantDocuments.length === 0): query returns the no-context
\* response; queryStream yields the no-information text and is suspended
\* at the yield, the return statement next
NoContextFallsThrough(c) ==
    IF c.kind = "stream"
    THEN [c EXCEPT !.pc = "streaming", !.chunks = Append(@, NoContextText),
                   !.nGenerateStream = @ + 1]
    ELSE Finish([c EXCEPT !.response = Some(NoContextResponse)])
NoContext(c) ==
    IF c.kind = "stream"
    THEN [c EXCEPT !.pc = "yielded", !.chunks = Append(@, NoContextText),
                   !.stages = Append(@, "NoContext")]
    ELSE Finish([c EXCEPT !.response = Some(NoContextResponse),
                          !.stages = @ \o <<"NoContext", "Done">>])

\* The embedding resolves with embeddings; const [queryEmbedding] = ...
QueryEmbeddedAnnotatingStore(p, embeddings) ==
    /\ calls[p].kind \in {"query", "stream"}
    /\ calls[p].pc = "embedding"
    /\ LET c == calls[p]
           queryEmbedding == IF Len(embeddings) > 0 THEN Some(embeddings[1])
                             ELSE None
           annotated == [i \in 1..Len(inMemoryStore) |->
                            [inMemoryStore[i] EXCEPT !.similarity =
                                Some(CosineSimilarity(Val(queryEmbedding),
                                         Val(inMemoryStore[i].embedding)))]]
       IN  IF ~IsSome(queryEmbedding)
           THEN /\ calls' = [calls EXCEPT ![p] =
                       NoContext([c EXCEPT !.relevant = Some(<< >>)])]
                /\ UNCHANGED inMemoryStore
           ELSE /\ calls' = [calls EXCEPT ![p] =
                       [c EXCEPT !.pc = "searching",
                                 !.stages = Append(@, "Searching"),
                                 !.queryEmbedding = queryEmbedding,
                                 !.nSearch = @ + 1,
                                 !.searched =
                                     IF provider = "in-memory"
                                     THEN Some(Slice(annotated,
                                                   Val(c.retriever).topK))
                                     ELSE None]]
                /\ inMemoryStore' = IF provider = "in-memory" THEN annotated
                                    ELSE inMemoryStore
    /\ UNCHANGED <<provider, astraCollection>>
\* An undefined queryEmbedding ends retrieve with [], and query answers
\* with the no-context response; otherwise similaritySearch is called.
QueryEmbedded(p, embeddings) ==
    /\ calls[p].kind \in {"query", "stream"}
    /\ calls[p].pc = "embedding"
    /\ LET c == calls[p]
           queryEmbedding == IF Len(embeddings) > 0 THEN Some(embeddings[1])
                             ELSE None
       IN  calls' = [calls EXCEPT ![p] =
               IF ~IsSome(queryEmbedding)
               THEN NoContext([c EXCEPT !.relevant = Some(<< >>)])
               ELSE [c EXCEPT !.pc = "searching",
                              !.stages = Append(@, "Searching"),
                              !.queryEmbedding = queryEmbedding,
                              !.nSearch = @ + 1,
                              !.searched =
                                  IF provider = "in-memory"
                                  THEN Some(InMemorySearch(inMemoryStore,
                                                Val(queryEmbedding),
                                                Val(c.retriever).topK))
                                  ELSE None]]
    /\ UNCHANGED <<provider, inMemoryStore, astraCollection>>

\* The embedding rejects: retrieve has no handler, nor has query
QueryEmbedFailed(p) ==
    /\ calls[p].kind \in {"query", "stream"}
    /\ calls[p].pc = "embedding"
    /\ calls' = [calls EXCEPT ![p] = Fail(@, "EmbeddingError")]
    /\ UNCHANGED <<provider, inMemoryStore, astraCollection>>

\* retrieve from the search result on, then query up to await llm.generate,
\* queryStream up to yield* llm.generateStream(fullPrompt)
AfterSearchNoShortCircuit(c, retrieved) ==
    LET relevant == FilterRelevant(retrieved, Val(c.retriever).similarityThreshold)
    IN  [c EXCEPT !.pc = "generating",
                  !.searched = Some(retrieved), !.relevant = Some(relevant),
                  !.prompt = Some(PromptTemplate(FormatContext(relevant),
                                                 c.query)),
                  !.nGenerate = @ + 1]
AfterSearch(c, retrieved) ==
    LET relevant == FilterRelevant(retrieved, Val(c.retriever).similarityThreshold)
        d == [c EXCEPT !.searched = Some(retrieved), !.relevant = Some(relevant),
                       !.stages = Append(@, "Filtering")]
    IN  IF Len(relevant) = 0
        THEN NoContext(d)
        ELSE IF c.kind = "stream"
        THEN [d EXCEPT !.pc = "streaming",
                       !.stages = @ \o <<"PromptBuilding", "Generating">>,
                       !.context = Some(FormatContext(relevant)),
                       !.prompt = Some(PromptTemplate(FormatContext(relevant),
                                                      c.query)),
                       !.nGenerateStream = @ + 1]
        ELSE [d EXCEPT !.pc = "generating",
                       !.stages = @ \o <<"PromptBuilding", "Generating">>,
                       !.context = Some(FormatContext(relevant)),
                       !.prompt = Some(PromptTemplate(FormatContext(relevant),
                                                      c.query)),
                       !.nGenerate = @ + 1]

\* await similaritySearch(...) resolves
QuerySearched(p) ==
    /\ calls[p].kind \in {"query", "stream"}
    /\ calls[p].pc = "searching"
    /\ IF provider = "in-memory"
       THEN calls' = [calls EXCEPT ![p] = AfterSearch(@, Val(@.searched))]
       ELSE \E records \in AstraFind(astraCollection,
                                     Val(calls[p].queryEmbedding),
                                     Val(calls[p].retriever).topK),
               withVector \in BOOLEAN :
                calls' = [calls EXCEPT ![p] =
                    AfterSearch(@, AstraResultDocs(records,
                                       Val(@.queryEmbedding), withVector))]
    /\ UNCHANGED <<provider, inMemoryStore, astraCollection>>

\* await cursor.toArray() rejects: similaritySearch rethrows
QuerySearchFailedRetried(p) ==
    /\ calls[p].kind \in {"query", "stream"}
    /\ calls[p].pc = "searching"
    /\ provider = "datastax_astra"
    /\ calls' = [calls EXCEPT ![p] =
           IF @.nSearch < 2 THEN [@ EXCEPT !.nSearch = @ + 1]
           ELSE Fail(@, "StorageError")]
    /\ UNCHANGED <<provider, inMemoryStore, astraCollection>>
QuerySearchFailed(p) ==
    /\ calls[p].kind \in {"query", "stream"}
    /\ calls[p].pc = "searching"
    /\ provider = "datastax_astra"
    /\ calls' = [calls EXCEPT ![p] = Fail(@, "StorageError")]
    /\ UNCHANGED <<provider, inMemoryStore, astraCollection>>

\* LLM.generate's return value for a completion whose content, after
\* (content || ''), is text
LLMResponse(text) == [text |-> text, finishReason |-> "stop"]

\* return { ...llmResponse, sourceDocuments: relevantDocuments }
CombineResponseWithoutSources(llmResponse, relevantDocuments) ==
    [text |-> llmResponse.text, finishReason |-> llmResponse.finishReason,
     sourceDocuments |-> << >>]
CombineResponse(llmResponse, relevantDocuments) ==
    [text |-> llmResponse.text, finishReason |-> llmResponse.finishReason,
     sourceDocuments |-> relevantDocuments]

\* await llm.generate(fullPrompt) resolves
QueryGeneratedAsksAgain(p, text) ==
    /\ calls[p].kind = "query"
    /\ calls[p].pc = "generating"
    /\ LET c == calls[p]
       IN  calls' = [calls EXCEPT ![p] =
               IF text = "" /\ c.nGenerate < 2
               THEN [c EXCEPT !.stages = Append(@, "Generating"),
                              !.nGenerate = @ + 1]
               ELSE Finish([c EXCEPT !.stages = Append(@, "Done"),
                                     !.llmResponse = Some(LLMResponse(text)),
                                     !.response =
                   Some(CombineResponse(LLMResponse(text), Val(c.relevant)))])]
    /\ UNCHANGED <<provider, inMemoryStore, astraCollection>>
QueryGenerated(p, text) ==
    /\ calls[p].kind = "query"
    /\ calls[p].pc = "generating"
    /\ LET c == calls[p]
       IN  calls' = [calls EXCEPT ![p] =
               Finish([c EXCEPT !.stages = Append(@, "Done"),
                                !.llmResponse = Some(LLMResponse(text)),
                                !.response =
                   Some(CombineResponse(LLMResponse(text), Val(c.relevant)))])]
    /\ UNCHANGED <<provider, inMemoryStore, astraCollection>>

\* await llm.generate(fullPrompt) rejects
QueryGenerateFailed(p) ==
    /\ calls[p].kind = "query"
    /\ calls[p].pc = "generating"
    /\ calls' = [calls EXCEPT ![p] = Fail(@, "GenerationError")]
    /\ UNCHANGED <<provider, inMemoryStore, astraCollection>>

\* The consumer's next() after the no-information chunk: return
StreamResumed(p) ==
    /\ calls[p].kind = "stream"
    /\ calls[p].pc = "yielded"
    /\ calls' = [calls EXCEPT ![p] = Finish(@)]
    /\ UNCHANGED <<provider, inMemoryStore, astraCollection>>

\* generateStream yields (delta.content || ''), passed on by yield*
StreamChunkSkippingEmpty(p, chunk) ==
    /\ calls[p].kind = "stream"
    /\ calls[p].pc = "streaming"
    /\ Len(calls[p].llmChunks) < MaxChunks
    /\ calls' = [calls EXCEPT ![p].llmChunks = Append(@, chunk),
                              ![p].chunks = @ \o Str(chunk)]
    /\ UNCHANGED <<provider, inMemoryStore, astraCollection>>
StreamChunk(p, chunk) ==
    /\ calls[p].kind = "stream"
    /\ calls[p].pc = "streaming"
    /\ Len(calls[p].llmChunks) < MaxChunks
    /\ calls' = [calls EXCEPT ![p].llmChunks = Append(@, chunk),
                              ![p].chunks = Append(@, chunk)]
    /\ UNCHANGED <<provider, inMemoryStore, astraCollection>>

\* The completion stream is exhausted: generateStream and queryStream end
StreamEnded(p) ==
    /\ calls[p].kind = "stream"
    /\ calls[p].pc = "streaming"
    /\ calls' = [calls EXCEPT ![p] = Finish(@)]
    /\ UNCHANGED <<provider, inMemoryStore, astraCollection>>

\* Creating or reading the completion stream rejects: generateStream
\* rethrows, queryStream has no handler
StreamFailed(p) ==
    /\ calls[p].kind = "stream"
    /\ calls[p].pc = "streaming"
    /\ calls' = [calls EXCEPT ![p] = Fail(@, "GenerationError")]
    /\ UNCHANGED <<provider, inMemoryStore, astraCollection>>

\* The caller's await on the call settles; the process is free again
Return(p) ==
    /\ calls[p].pc = "done"
    /\ calls' = [calls EXCEPT ![p] = IdleCall]
    /\ UNCHANGED <<provider, inMemoryStore, astraCollection>>

----------------------------------------------------------------------------
(* Specification                                                           *)

Init ==
    /\ provider \in {"in-memory", "datastax_astra"}
    /\ inMemoryStore = << >>
    /\ astraCollection = << >>
    /\ calls = [p \in Procs |-> IdleCall]

Next ==
    \E p \in Procs :
        \/ \E docs \in SeqUpTo(DocPool, MaxBatch) : AddStart(p, docs)
        \/ AddEmbedded(p)
        \/ AddEmbedFailed(p)
        \/ AddInserted(p)
        \/ AddInsertFailed(p)
        \/ \E config \in PipelineConfigs, q \in Queries :
               QueryStart(p, config, q)
        \/ \E embeddings \in {GenerateEmbeddings(<<calls[p].query>>), << >>} :
               QueryEmbedded(p, embeddings)
        \/ QueryEmbedFailed(p)
        \/ QuerySearched(p)
        \/ QuerySearchFailed(p)
        \/ \E text \in GenTexts : QueryGenerated(p, text)
        \/ QueryGenerateFailed(p)
        \/ Return(p)

Spec == Init /\ [][Next]_vars

----------------------------------------------------------------------------
(* The three-topic scenario: documents A, B, C on the in-memory backend    *)

ScenarioDocs ==
    { [id |-> "A", content |-> "tA", embedding |-> None, similarity |-> None],
      [id |-> "B", content |-> "tB", embedding |-> None, similarity |-> None],
      [id |-> "C", content |-> "tC", embedding |-> None, similarity |-> None] }

ScenarioConfigs ==
    [retrieverTopK : {None, Some(1), Some(3)},
     retrieverSimilarityThreshold : {None, Some(50)}]

InitScenario ==
    /\ provider = "in-memory"
    /\ inMemoryStore = << >>
    /\ astraCollection = << >>
    /\ calls = [p \in Procs |-> IdleCall]

NextScenario ==
    \E p \in Procs :
        \/ \E docs \in SeqUpTo(ScenarioDocs, MaxBatch) : AddStart(p, docs)
        \/ AddEmbedded(p)
        \/ AddEmbedFailed(p)
        \/ \E config \in ScenarioConfigs, q \in Queries :
               QueryStart(p, config, q)
        \/ \E embeddings \in {GenerateEmbeddings(<<calls[p].query>>), << >>} :
               QueryEmbedded(p, embeddings)
        \/ QueryEmbedFailed(p)
        \/ QuerySearched(p)
        \/ \E text \in GenTexts : QueryGenerated(p, text)
        \/ QueryGenerateFailed(p)
        \/ Return(p)

SpecScenario == InitScenario /\ [][NextScenario]_vars

----------------------------------------------------------------------------
(* Streaming queries over documents that are embedded on insertion         *)

StreamDocs == {d \in DocPool : d.content # "" /\ d.embedding = None}

NextStream ==
    \E p \in Procs :
        \/ \E docs \in SeqUpTo(StreamDocs, MaxBatch) : AddStart(p, docs)
        \/ AddEmbedded(p)
        \/ AddEmbedFailed(p)
        \/ AddInserted(p)
        \/ AddInsertFailed(p)
        \/ \E config \in PipelineConfigs, q \in Queries :
               StreamStart(p, config, q)
        \/ \E embeddings \in {GenerateEmbeddings(<<calls[p].query>>), << >>} :
               QueryEmbedded(p, embeddings)
        \/ QueryEmbedFailed(p)
        \/ QuerySearched(p)
        \/ QuerySearchFailed(p)
        \/ StreamResumed(p)
        \/ \E chunk \in GenTexts : StreamChunk(p, chunk)
        \/ StreamEnded(p)
        \/ StreamFailed(p)
        \/ Return(p)

SpecStream == Init /\ [][NextStream]_vars

----------------------------------------------------------------------------
(* Retriever.formatContext on its own, applied to any sequence of documents *)

FormatDocs ==
    [id : Ids, content : Contents, embedding : {Some(<<3, 4>>)},
     similarity : {None}]

InitFormat ==
    /\ provider = "in-memory"
    /\ inMemoryStore = << >>
    /\ astraCollection = << >>
    /\ \E documents \in SeqUpTo(FormatDocs, MaxFormatDocs) :
           calls = [p \in Procs |->
                       [IdleCall EXCEPT !.kind = "format", !.input = documents]]

\* retriever.formatContext(documents): synchronous, returns the string
FormatContextCall(p) ==
    /\ calls[p].kind = "format"
    /\ calls[p].pc = "idle"
    /\ LET c == calls[p]
       IN  calls' = [calls EXCEPT ![p] =
               Finish([c EXCEPT !.context = Some(FormatContext(c.input))])]
    /\ UNCHANGED <<provider, inMemoryStore, astraCollection>>

NextFormat == \E p \in Procs : FormatContextCall(p)

SpecFormat == InitFormat /\ [][NextFormat]_vars

----------------------------------------------------------------------------
(* One caller inserting into the in-memory store while another queries it  *)

ConcProcs == {"writer", "reader"}

ConcDocs == {d \in DocPool : d.content = "tA" \/ (d.id = "B" /\ d.content = "")}

ConcConfigs ==
    [retrieverTopK : {None, Some(1)}, retrieverSimilarityThreshold : {None}]

InitConc ==
    /\ provider = "in-memory"
    /\ inMemoryStore = << >>
    /\ astraCollection = << >>
    /\ calls = [p \in ConcProcs |-> IdleCall]

NextConc ==
    \/ \E docs \in SeqUpTo(ConcDocs, MaxBatch) : AddStart("writer", docs)
    \/ AddEmbedded("writer")
    \/ AddEmbedFailed("writer")
    \/ Return("writer")
    \/ \E config \in ConcConfigs : QueryStart("reader", config, "tA")
    \/ QueryEmbedded("reader", GenerateEmbeddings(<<calls["reader"].query>>))
    \/ QueryEmbedFailed("reader")
    \/ QuerySearched("reader")
    \/ QueryGenerated("reader", "answer")
    \/ QueryGenerateFailed("reader")
    \/ Return("reader")

SpecConc == InitConc /\ [][NextConc]_vars

----------------------------------------------------------------------------
(* Documents that arrive carrying a similarity, as search results do       *)

AnnotatedDocs ==
    [id : Ids, content : {"tA"}, embedding : SuppliedEmbeddings,
     similarity : {None, Some(90)}]

AnnotatedConfigs ==
    [retrieverTopK : {None}, retrieverSimilarityThreshold : {None, Some(95)}]

NextAnnotated ==
    \E p \in Procs :
        \/ \E docs \in SeqUpTo(AnnotatedDocs, MaxBatch) : AddStart(p, docs)
        \/ AddEmbedded(p)
        \/ AddEmbedFailed(p)
        \/ AddInserted(p)
        \/ AddInsertFailed(p)
        \/ \E config \in AnnotatedConfigs : QueryStart(p, config, "tA")
        \/ \E embeddings \in {GenerateEmbeddings(<<calls[p].query>>), << >>} :
               QueryEmbedded(p, embeddings)
        \/ QueryEmbedFailed(p)
        \/ QuerySearched(p)
        \/ QuerySearchFailed(p)
        \/ \E text \in GenTexts : QueryGenerated(p, text)
        \/ QueryGenerateFailed(p)
        \/ Return(p)

SpecAnnotated == Init /\ [][NextAnnotated]_vars

----------------------------------------------------------------------------
(* Ingestion through the pipeline: addDocuments and ingestData             *)

\* The pipeline's dataLoader: none, or a DataLoader with its config
DataLoaderConfigs ==
    [type : {"file"}, path : {None, Some(""), Some("data/source.txt")},
     url : {None, Some("https://a.example/x")}]

DataLoaders == {None} \cup {Some(config) : config \in DataLoaderConfigs}

NextIngest ==
    \E p \in Procs :
        \/ \E docs \in SeqUpTo(StreamDocs, MaxBatch) :
               PipelineAddDocuments(p, docs)
        \/ \E dataLoader \in DataLoaders : IngestStart(p, dataLoader)
        \/ IngestLoaded(p, IF IsSome(calls[p].dataLoader)
                           THEN LoadAndChunk(Val(calls[p].dataLoader))
                           ELSE << >>)
        \/ AddEmbedded(p)
        \/ AddEmbedFailed(p)
        \/ AddInserted(p)
        \/ AddInsertFailed(p)
        \/ Return(p)

SpecIngest == Init /\ [][NextIngest]_vars

----------------------------------------------------------------------------
(* getUrlsToProcess                                                        *)

\* A string is the sequence of its characters. "http" stands for the four
\* characters of that prefix and "a" for any other run of characters that
\* holds no blank, comma or line break.
FileChars == {"http", "a", " ", "\n"}
EnvChars == {"http", ",", " "}

MaxFileLen == 3
MaxEnvLen == 3
MaxFsOps == 3

\* String.prototype.split(sep): the pieces between the separators, one
\* more than there are separators
RECURSIVE Split(_, _)
Split(s, sep) ==
    IF \A i \in 1..Len(s) : s[i] # sep THEN <<s>>
    ELSE LET k == CHOOSE i \in 1..Len(s) :
                      s[i] = sep /\ \A j \in 1..(i - 1) : s[j] # sep
         IN  <<SubSeq(s, 1, k - 1)>> \o Split(SubSeq(s, k + 1, Len(s)), sep)

IsBlank(ch) == ch \in {" ", "\n"}

\* String.prototype.trim()
RECURSIVE Trim(_)
Trim(s) ==
    IF s = << >> THEN s
    ELSE IF IsBlank(s[1]) THEN Trim(Tail(s))
    ELSE IF IsBlank(s[Len(s)]) THEN Trim(SubSeq(s, 1, Len(s) - 1))
    ELSE s

TrimAll(pieces) == [i \in 1..Len(pieces) |-> Trim(pieces[i])]

\* line?.startsWith('http')
StartsWithHttp(line) == Len(line) > 0 /\ line[1] = "http"

\* fileContent.split('\n').map(line => line.trim())
\*     .filter(line => line?.startsWith('http'))
FileUrls(fileContent) ==
    SelectSeq(TrimAll(Split(fileContent, "\n")), StartsWithHttp)

\* envUrls.split(',').map(url => url.trim()).filter(url => url)
EnvUrls(envUrls) ==
    SelectSeq(TrimAll(Split(envUrls, ",")), LAMBDA url : url # << >>)

\* scrapeToFiles once await getUrlsToProcess() has resolved with urls: an
\* empty list ends the run, otherwise ensureDirectoryExists(OUTPUT_DIR) is
\* awaited, which begins with fs.promises.access
ScrapeAfterUrls(c, urls) ==
    IF Len(urls) = 0 THEN Finish([c EXCEPT !.urls = urls])
    ELSE [c EXCEPT !.urls = urls, !.pc = "ensuringOutputDir"]

\* getUrlsToProcess returns urls, to its caller or into scrapeToFiles
GetUrlsReturn(c, urls) ==
    IF c.kind = "scrape" THEN ScrapeAfterUrls(c, urls)
    ELSE Finish([c EXCEPT !.urls = urls])

\* getUrlsToProcess throws; in scrapeToFiles the outer catch logs the
\* error and calls process.exit(1)
GetUrlsThrow(c, err) ==
    IF c.kind = "scrape" THEN Fail(c, "FatalError") ELSE Fail(c, err)

\* getUrlsToProcess once loadUrlsFromArchitecture has resolved with urls:
\* the file URLs if there are any, else those of URLS_TO_PROCESS if it is
\* set and not the empty string, else the error
AfterLoad(c, urls) ==
    LET env == Val(c.args)
        d == [c EXCEPT !.loaded = Some(urls)]
    IN  IF Len(urls) > 0 THEN GetUrlsReturn(d, urls)
        ELSE IF IsSome(env) /\ Val(env) # << >>
        THEN GetUrlsReturn(d, EnvUrls(Val(env)))
        ELSE GetUrlsThrow(d,
                 "No URLs found in files or environment variables")

\* loadUrlsFromArchitecture after one of its awaits has resolved, urls
\* being the list pushed so far: the entries that are neither a directory
\* nor a .txt file are passed over, and then the next directory is read, the
\* next .txt file is read, or, all entries of all directories being
\* exhausted, the list is returned to getUrlsToProcess
AfterFsOp(c, urls, next) ==
    IF next = "return" THEN AfterLoad(c, urls)
    ELSE [c EXCEPT !.pc = next, !.loaded = Some(urls), !.nLoad = @ + 1]

\* A caller invokes getUrlsToProcess() while URLS_TO_PROCESS is env (None
\* when unset): up to await fs.promises.readdir(linksDir)
GetUrlsStart(p, env) ==
    /\ CanStart(p)
    /\ calls' = [calls EXCEPT ![p] =
           [IdleCall EXCEPT !.kind = "getUrls", !.pc = "readdir",
                            !.args = Some(env), !.loaded = Some(<< >>),
                            !.nLoad = 1]]
    /\ UNCHANGED <<provider, inMemoryStore, astraCollection>>

\* await fs.promises.readdir(...) resolves, for the links directory or for
\* one of its subdirectories
ReaddirResolved(p, next) ==
    /\ calls[p].kind \in {"getUrls", "scrape"}
    /\ calls[p].pc = "readdir"
    /\ next # "return" => calls[p].nLoad < MaxFsOps
    /\ calls' = [calls EXCEPT ![p] = AfterFsOp(@, Val(@.loaded), next)]
    /\ UNCHANGED <<provider, inMemoryStore, astraCollection>>

\* await fs.promises.readFile(fullPath, 'utf-8') resolves with fileContent
ReadFileResolved(p, fileContent, next) ==
    /\ calls[p].kind \in {"getUrls", "scrape"}
    /\ calls[p].pc = "readFile"
    /\ next # "return" => calls[p].nLoad < MaxFsOps
    /\ calls' = [calls EXCEPT ![p] =
           AfterFsOp(@, Val(@.loaded) \o FileUrls(fileContent), next)]
    /\ UNCHANGED <<provider, inMemoryStore, astraCollection>>

\* readdir or readFile rejects: every level of loadUrlsFromArchitecture
\* logs and rethrows, and so does getUrlsToProcess
FsRejected(p) ==
    /\ calls[p].kind \in {"getUrls", "scrape"}
    /\ calls[p].pc \in {"readdir", "readFile"}
    /\ calls' = [calls EXCEPT ![p] = GetUrlsThrow(@, "FsError")]
    /\ UNCHANGED <<provider, inMemoryStore, astraCollection>>

NextGetUrls ==
    \E p \in Procs :
        \/ \E env \in {None} \cup {Some(s) : s \in SeqUpTo(EnvChars, MaxEnvLen)} :
               GetUrlsStart(p, env)
        \/ \E next \in {"readdir", "readFile", "return"} :
               ReaddirResolved(p, next)
        \/ \E fileContent \in SeqUpTo(FileChars, MaxFileLen),
              next \in {"readdir", "readFile", "return"} :
               ReadFileResolved(p, fileContent, next)
        \/ FsRejected(p)
        \/ Return(p)

SpecGetUrls == Init /\ [][NextGetUrls]_vars

----------------------------------------------------------------------------
(* scripts/scrape-to-files.ts: scrapeToFiles                               *)

\* scrapeToFiles() is invoked while URLS_TO_PROCESS is env: up to await
\* getUrlsToProcess(), which runs up to await fs.promises.readdir(linksDir)
ScrapeStart(p, env) ==
    /\ CanStart(p)
    /\ calls' = [calls EXCEPT ![p] =
           [IdleCall EXCEPT !.kind = "scrape", !.pc = "readdir",
                            !.args = Some(env), !.loaded = Some(<< >>),
                            !.nLoad = 1]]
    /\ UNCHANGED <<provider, inMemoryStore, astraCollection>>

\* The loop header for index i (1-based): past the last URL the summary is
\* printed and the run ends, otherwise scrapePage(urls[i]) is awaited
LoopAtStoppingOnFailure(c, i) ==
    IF i > Len(c.urls) \/ c.failureCount > 0
    THEN Finish([c EXCEPT !.i = i])
    ELSE [c EXCEPT !.i = i, !.pc = "scraping",
                   !.scraped = Append(@, c.urls[i])]
LoopAt(c, i) ==
    IF i > Len(c.urls)
    THEN Finish([c EXCEPT !.i = i])
    ELSE [c EXCEPT !.i = i, !.pc = "scraping",
                   !.scraped = Append(@, c.urls[i])]

\* ensureDirectoryExists(OUTPUT_DIR): await fs.promises.access resolves,
\* the directory exists and the loop is entered
ScrapeOutputDirExists(p) ==
    /\ calls[p].kind = "scrape"
    /\ calls[p].pc = "ensuringOutputDir"
    /\ calls' = [calls EXCEPT ![p] = LoopAt(@, 1)]
    /\ UNCHANGED <<provider, inMemoryStore, astraCollection>>

\* access rejects: the catch awaits fs.promises.mkdir
ScrapeOutputDirMissing(p) ==
    /\ calls[p].kind = "scrape"
    /\ calls[p].pc = "ensuringOutputDir"
    /\ calls' = [calls EXCEPT ![p].pc = "makingOutputDir"]
    /\ UNCHANGED <<provider, inMemoryStore, astraCollection>>

\* mkdir of OUTPUT_DIR resolves: the loop is entered
ScrapeOutputDirReady(p) ==
    /\ calls[p].kind = "scrape"
    /\ calls[p].pc = "makingOutputDir"
    /\ calls' = [calls EXCEPT ![p] = LoopAt(@, 1)]
    /\ UNCHANGED <<provider, inMemoryStore, astraCollection>>

\* mkdir of OUTPUT_DIR rejects: the outer catch, process.exit(1)
ScrapeOutputDirFailed(p) ==
    /\ calls[p].kind = "scrape"
    /\ calls[p].pc = "makingOutputDir"
    /\ calls' = [calls EXCEPT ![p] = Fail(@, "FatalError")]
    /\ UNCHANGED <<provider, inMemoryStore, astraCollection>>

\* await scrapePage(url) resolves, with the page data or with null
\* (scrapePage catches its own errors): null is counted and the loop
\* continues, otherwise the directory of the file is ensured
ScrapePageDone(p, ok) ==
    /\ calls[p].kind = "scrape"
    /\ calls[p].pc = "scraping"
    /\ LET c == calls[p]
       IN  calls' = [calls EXCEPT ![p] =
               IF ok THEN [c EXCEPT !.pc = "ensuringDir"]
               ELSE LoopAt([c EXCEPT !.failureCount = @ + 1], c.i + 1)]
    /\ UNCHANGED <<provider, inMemoryStore, astraCollection>>

\* ensureDirectoryExists(dirPath): access resolves, the directory exists;
\* then await fs.promises.access(fullFilePath)
ScrapeDirExists(p) ==
    /\ calls[p].kind = "scrape"
    /\ calls[p].pc = "ensuringDir"
    /\ calls' = [calls EXCEPT ![p].pc = "checkingFile"]
    /\ UNCHANGED <<provider, inMemoryStore, astraCollection>>

\* access of dirPath rejects: the catch awaits fs.promises.mkdir
ScrapeDirMissing(p) ==
    /\ calls[p].kind = "scrape"
    /\ calls[p].pc = "ensuringDir"
    /\ calls' = [calls EXCEPT ![p].pc = "makingDir"]
    /\ UNCHANGED <<provider, inMemoryStore, astraCollection>>

\* mkdir of dirPath resolves; then await fs.promises.access(fullFilePath)
ScrapeDirReady(p) ==
    /\ calls[p].kind = "scrape"
    /\ calls[p].pc = "makingDir"
    /\ calls' = [calls EXCEPT ![p].pc = "checkingFile"]
    /\ UNCHANGED <<provider, inMemoryStore, astraCollection>>

\* mkdir of dirPath rejects: the catch of the loop body counts a failure
ScrapeDirFailed(p) ==
    /\ calls[p].kind = "scrape"
    /\ calls[p].pc = "makingDir"
    /\ LET c == calls[p]
       IN  calls' = [calls EXCEPT ![p] =
               LoopAt([c EXCEPT !.failureCount = @ + 1], c.i + 1)]
    /\ UNCHANGED <<provider, inMemoryStore, astraCollection>>

\* access of fullFilePath settles: resolved, the file exists and will be
\* overwritten; rejected, the inner catch passes; either way
\* saveContentToFile is awaited, which awaits fs.promises.writeFile
ScrapeFileChecked(p) ==
    /\ calls[p].kind = "scrape"
    /\ calls[p].pc = "checkingFile"
    /\ calls' = [calls EXCEPT ![p].pc = "saving"]
    /\ UNCHANGED <<provider, inMemoryStore, astraCollection>>

\* await saveContentToFile(...) resolves: successCount++, then the delay
ScrapeSaved(p) ==
    /\ calls[p].kind = "scrape"
    /\ calls[p].pc = "saving"
    /\ LET c == calls[p]
       IN  calls' = [calls EXCEPT ![p] =
               [c EXCEPT !.pc = "delaying", !.successCount = @ + 1,
                         !.saved = Append(@, c.urls[c.i])]]
    /\ UNCHANGED <<provider, inMemoryStore, astraCollection>>

\* writeFile rejects: the catch of the loop body counts a failure
ScrapeSaveFailed(p) ==
    /\ calls[p].kind = "scrape"
    /\ calls[p].pc = "saving"
    /\ LET c == calls[p]
       IN  calls' = [calls EXCEPT ![p] =
               LoopAt([c EXCEPT !.failureCount = @ + 1], c.i + 1)]
    /\ UNCHANGED <<provider, inMemoryStore, astraCollection>>

\* The one-second timer fires: the next iteration
ScrapeDelayed(p) ==
    /\ calls[p].kind = "scrape"
    /\ calls[p].pc = "delaying"
    /\ LET c == calls[p]
       IN  calls' = [calls EXCEPT ![p] = LoopAt(c, c.i + 1)]
    /\ UNCHANGED <<provider, inMemoryStore, astraCollection>>

InitScrape ==
    /\ provider = "in-memory"
    /\ inMemoryStore = << >>
    /\ astraCollection = << >>
    /\ calls = [p \in Procs |-> IdleCall]

\* What URLS_TO_PROCESS and the link files may hold during a run
ScrapeEnvs == {None, Some(<<",">>), Some(<<"http">>)}
ScrapeFileContents == {<< >>, <<"http">>, <<"http", "\n", "http", "a">>}

NextScrape ==
    \E p \in Procs :
        \/ \E env \in ScrapeEnvs : ScrapeStart(p, env)
        \/ \E next \in {"readdir", "readFile", "return"} :
               ReaddirResolved(p, next)
        \/ \E fileContent \in ScrapeFileContents,
              next \in {"readdir", "readFile", "return"} :
               ReadFileResolved(p, fileContent, next)
        \/ FsRejected(p)
        \/ ScrapeOutputDirExists(p)
        \/ ScrapeOutputDirMissing(p)
        \/ ScrapeOutputDirReady(p)
        \/ ScrapeOutputDirFailed(p)
        \/ \E ok \in BOOLEAN : ScrapePageDone(p, ok)
        \/ ScrapeDirExists(p)
        \/ ScrapeDirMissing(p)
        \/ ScrapeDirReady(p)
        \/ ScrapeDirFailed(p)
        \/ ScrapeFileChecked(p)
        \/ ScrapeSaved(p)
        \/ ScrapeSaveFailed(p)
        \/ ScrapeDelayed(p)
        \/ Return(p)

SpecScrape == InitScrape /\ [][NextScrape]_vars

----------------------------------------------------------------------------
(* Queries whose collaborators always respond                              *)

\* A collaborator's promise settles and the event loop runs the
\* continuation of the query that awaits it
QueryProgress(p) ==
    \/ \E embeddings \in {GenerateEmbeddings(<<calls[p].query>>), << >>} :
           QueryEmbedded(p, embeddings)
    \/ QueryEmbedFailed(p)
    \/ QuerySearched(p)
    \/ QuerySearchFailed(p)
    \/ \E text \in GenTexts : QueryGenerated(p, text)
    \/ QueryGenerateFailed(p)

NextStages ==
    \E p \in Procs :
        \/ \E docs \in SeqUpTo(StreamDocs, MaxBatch) : AddStart(p, docs)
        \/ AddEmbedded(p)
        \/ AddEmbedFailed(p)
        \/ AddInserted(p)
        \/ AddInsertFailed(p)
        \/ \E config \in PipelineConfigs, q \in Queries :
               QueryStart(p, config, q)
        \/ QueryProgress(p)
        \/ Return(p)

SpecStages ==
    /\ Init /\ [][NextStages]_vars
    /\ \A p \in Procs : WF_vars(QueryProgress(p))

----------------------------------------------------------------------------
(* Two callers querying a store that was filled before                     *)

QueryProcs == {"q1", "q2"}

QueryConfigs ==
    [retrieverTopK : {None, Some(1)}, retrieverSimilarityThreshold : {Some(60)}]

\* The documents of a batch as addDocuments stores them
Embedded(docs) ==
    AssignEmbeddings(docs, GenerateEmbeddings(ContentsOf(DocsToEmbed(docs))))

\* A store of either backend after one addDocuments call on the empty store
InitQueries ==
    /\ provider \in {"in-memory", "datastax_astra"}
    /\ \E docs \in SeqUpTo(StreamDocs, MaxBatch) :
           /\ inMemoryStore = IF provider = "in-memory"
                              THEN InsertAll(<< >>, Embedded(docs)) ELSE << >>
           /\ astraCollection = IF provider = "in-memory" THEN << >>
                                ELSE AstraDocs(Embedded(docs))
           /\ provider = "datastax_astra" =>
                  AstraAccepts(<< >>, AstraDocs(Embedded(docs)))
    /\ calls = [p \in QueryProcs |-> IdleCall]

NextQueries ==
    \E p \in QueryProcs :
        \/ \E config \in QueryConfigs, q \in {"tA", "tB"} :
               QueryStart(p, config, q)
        \/ \E config \in QueryConfigs, q \in {"tA", "tB"} :
               StreamStart(p, config, q)
        \/ \E embeddings \in {GenerateEmbeddings(<<calls[p].query>>), << >>} :
               QueryEmbedded(p, embeddings)
        \/ QueryEmbedFailed(p)
        \/ QuerySearched(p)
        \/ QuerySearchFailed(p)
        \/ QueryGenerated(p, "answer")
        \/ QueryGenerateFailed(p)
        \/ StreamResumed(p)
        \/ StreamChunk(p, "answer")
        \/ StreamEnded(p)
        \/ StreamFailed(p)
        \/ Return(p)

SpecQueries == InitQueries /\ [][NextQueries]_vars

----------------------------------------------------------------------------
(* Properties                                                              *)

IdsOf(store) == {store[i].id : i \in 1..Len(store)}

EntryOf(store, id) == store[KeyIndex(store, id)]

\* The ids of the documents of a batch that carry an embedding
EmbeddedIds(documents) ==
    {documents[i].id : i \in {j \in 1..Len(documents) : IsSome(documents[j].embedding)}}

\* The last document of a batch with this id that carries an embedding
LastEmbedded(documents, id) ==
    documents[CHOOSE i \in 1..Len(documents) :
                /\ documents[i].id = id
                /\ IsSome(documents[i].embedding)
                /\ \A j \in (i + 1)..Len(documents) :
                      ~(documents[j].id = id /\ IsSome(documents[j].embedding))]

\* A document with empty content and no pre-supplied vector
Unembeddable(doc) == doc.embedding = None /\ doc.content = ""

\* The threshold the caller configured (the documented default when none)
ConfiguredThreshold(c) ==
    IF IsSome(Val(c.config).retrieverSimilarityThreshold)
    THEN Val(Val(c.config).retrieverSimilarityThreshold)
    ELSE DefaultSimilarityThreshold

\* C1: whenever retrieve has returned an empty sequence, query is finished
\* without error, its response is the fixed no-information text with
\* sourceDocuments = [] and finishReason 'no_context', and the Generator
\* was not invoked in that call.
C1_NoContextNeverGenerates ==
    \A p \in Procs :
        LET c == calls[p]
        IN  (c.kind = "query" /\ c.relevant = Some(<< >>)) =>
                /\ c.pc = "done"
                /\ c.error = "none"
                /\ c.response = Some(NoContextResponse)
                /\ c.nGenerate = 0

\* A query whose search returned documents, all of them filtered out
C1_Witness ==
    \E p \in Procs :
        /\ calls[p].kind = "query"
        /\ calls[p].pc = "done"
        /\ IsSome(calls[p].searched)
        /\ Len(Val(calls[p].searched)) > 0
        /\ calls[p].relevant = Some(<< >>)
        /\ calls[p].response = Some(NoContextResponse)

\* C2: for every configured threshold in [0,1], 0 included, retrieve keeps
\* a searched document if and only if it has no similarity annotation or
\* its similarity is at least the configured threshold.
C2_KeepsIffAtLeastConfigured ==
    \A p \in Procs :
        LET c == calls[p]
        IN  (c.kind = "query" /\ IsSome(c.searched) /\ IsSome(c.relevant)) =>
                Val(c.relevant) =
                    SelectSeq(Val(c.searched),
                              LAMBDA d : \/ d.similarity = None
                                         \/ Val(d.similarity) >= ConfiguredThreshold(c))

\* C3: retrieve never returns a document whose similarity annotation is
\* present and below the configured threshold.
C3_NeverBelowThreshold ==
    \A p \in Procs :
        LET c == calls[p]
        IN  (c.kind = "query" /\ IsSome(c.relevant)) =>
                \A i \in 1..Len(Val(c.relevant)) :
                    LET d == Val(c.relevant)[i]
                    IN  IsSome(d.similarity) =>
                            Val(d.similarity) >= ConfiguredThreshold(c)

\* A retrieve that dropped a scored document and kept another
C3_Witness ==
    \E p \in Procs :
        LET c == calls[p]
        IN  /\ c.kind = "query"
            /\ IsSome(c.searched) /\ IsSome(c.relevant)
            /\ Len(Val(c.relevant)) > 0
            /\ IsSome(Val(c.relevant)[1].similarity)
            /\ \E i \in 1..Len(Val(c.searched)) :
                  /\ IsSome(Val(c.searched)[i].similarity)
                  /\ Val(Val(c.searched)[i].similarity) < ConfiguredThreshold(c)

\* C4: when the query embedding fails or comes back empty, retrieve gives
\* an empty sequence and no error, similaritySearch is not called, and
\* query answers with the no-context response.
C4_EmbeddingFailureIsSoft ==
    \A p \in Procs :
        LET c == calls[p]
        IN  (c.kind = "query" /\ c.pc = "done" /\ c.queryEmbedding = None) =>
                /\ c.error = "none"
                /\ c.relevant = Some(<< >>)
                /\ c.nSearch = 0
                /\ c.response = Some(NoContextResponse)

\* The contents of the documents of a batch that lack an embedding and have
\* non-empty content, in input order
RECURSIVE ContentsLackingEmbedding(_)
ContentsLackingEmbedding(documents) ==
    IF documents = << >> THEN << >>
    ELSE (IF Head(documents).embedding = None /\ Head(documents).content # ""
          THEN <<Head(documents).content>> ELSE << >>)
         \o ContentsLackingEmbedding(Tail(documents))

\* C5: an addDocuments call invokes generateEmbeddings exactly once, with
\* the contents of all its documents that lack an embedding and have
\* content, in input order, when there is such a document, and not at all
\* otherwise, whatever the number of documents.
C5_OneEmbeddingCallPerBatch ==
    \A p \in Procs :
        LET c == calls[p]
        IN  c.kind = "add" =>
                IF ContentsLackingEmbedding(c.input) # << >>
                THEN /\ c.nEmbed = 1
                     /\ c.embedArgs = <<ContentsLackingEmbedding(c.input)>>
                ELSE /\ c.nEmbed = 0
                     /\ c.embedArgs = << >>

\* A finished call that embedded a batch of several documents in one call
C5_Witness ==
    \E p \in Procs :
        /\ calls[p].kind = "add"
        /\ calls[p].pc = "done"
        /\ calls[p].error = "none"
        /\ Len(calls[p].input) >= 2
        /\ calls[p].nEmbed = 1
        /\ Len(calls[p].embedArgs[1]) >= 2

\* The store of the configured backend, and what it was when c started
BackendStore == IF provider = "in-memory" THEN inMemoryStore ELSE astraCollection
BackendStoreBefore(c) ==
    IF provider = "in-memory" THEN c.preStore ELSE c.preCollection

\* C6: a batch with a document that has neither content nor vector fails
\* only if the embedding provider or the remote insert failed; when it
\* completes, every document of it that carries an embedding is stored,
\* and the document without one is not inserted: its id is stored only as
\* it was before, or as another document of the batch stored it.
C6_SkipsWithoutAborting ==
    \A p \in Procs :
        LET c == calls[p]
        IN  (/\ c.kind = "add" /\ c.pc = "done"
             /\ \E i \in 1..Len(c.input) : Unembeddable(c.input[i])) =>
                /\ c.error = "EmbeddingError" => c.nEmbed = 1
                /\ c.error = "StorageError" => c.nInsertMany = 1
                /\ (provider = "in-memory" /\ c.nEmbed = 0) => c.error = "none"
                /\ c.error = "none" =>
                     /\ \A i \in 1..Len(c.documents) :
                           IsSome(c.documents[i].embedding) =>
                              /\ HasKey(BackendStore, c.documents[i].id)
                              /\ provider = "in-memory" =>
                                    EntryOf(inMemoryStore, c.documents[i].id)
                                      = LastEmbedded(c.documents, c.documents[i].id)
                     /\ \A i \in 1..Len(c.input) :
                           (/\ Unembeddable(c.input[i])
                            /\ c.input[i].id \notin EmbeddedIds(c.documents)) =>
                              /\ HasKey(BackendStore, c.input[i].id)
                                   <=> HasKey(BackendStoreBefore(c), c.input[i].id)
                              /\ HasKey(BackendStore, c.input[i].id) =>
                                    EntryOf(BackendStore, c.input[i].id)
                                      = EntryOf(BackendStoreBefore(c), c.input[i].id)
                     /\ \A i \in 1..Len(inMemoryStore) :
                           IsSome(inMemoryStore[i].embedding)

\* An in-memory batch whose first document was skipped and whose second
\* document was stored
C6_Witness ==
    \E p \in Procs :
        LET c == calls[p]
        IN  /\ provider = "in-memory"
            /\ c.kind = "add" /\ c.pc = "done" /\ c.error = "none"
            /\ Len(c.input) = 2
            /\ Unembeddable(c.input[1])
            /\ c.input[1].id # c.input[2].id
            /\ ~HasKey(inMemoryStore, c.input[1].id)
            /\ HasKey(inMemoryStore, c.input[2].id)
            /\ EntryOf(inMemoryStore, c.input[2].id) = c.documents[2]

\* C7: the in-memory store holds at most one entry per id; after an
\* addDocuments call its ids are the ids stored before plus the ids the
\* call inserted, one entry each, and an id the call inserted carries the
\* content of the call's last insertion of it.
C7_UpsertById ==
    /\ \A i, j \in 1..Len(inMemoryStore) :
          inMemoryStore[i].id = inMemoryStore[j].id => i = j
    /\ \A p \in Procs :
          LET c == calls[p]
          IN  (/\ provider = "in-memory"
               /\ c.kind = "add" /\ c.pc = "done" /\ c.error = "none") =>
                  /\ IdsOf(inMemoryStore)
                        = IdsOf(c.preStore) \cup EmbeddedIds(c.documents)
                  /\ Len(inMemoryStore)
                        = Cardinality(IdsOf(c.preStore) \cup EmbeddedIds(c.documents))
                  /\ \A id \in EmbeddedIds(c.documents) :
                        \A i \in 1..Len(inMemoryStore) :
                            inMemoryStore[i].id = id =>
                                inMemoryStore[i].content
                                    = LastEmbedded(c.documents, id).content

\* An id stored with one content is inserted again with another content
C7_Witness ==
    \E p \in Procs :
        LET c == calls[p]
        IN  /\ provider = "in-memory"
            /\ c.kind = "add" /\ c.pc = "done" /\ c.error = "none"
            /\ \E id \in EmbeddedIds(c.documents) :
                  /\ HasKey(c.preStore, id)
                  /\ EntryOf(c.preStore, id).content
                        # LastEmbedded(c.documents, id).content
                  /\ EntryOf(inMemoryStore, id).content
                        = LastEmbedded(c.documents, id).content
                  /\ Len(inMemoryStore) = Len(c.preStore)

\* C8: on the in-memory backend similaritySearch returns
\* min(topK, number of stored documents) documents, each of them stored,
\* in order of non-increasing similarity to the query vector.
C8_TopKSortedBySimilarity ==
    \A p \in Procs :
        LET c == calls[p]
        IN  (/\ provider = "in-memory" /\ c.kind = "query"
             /\ IsSome(c.queryEmbedding) /\ IsSome(c.searched)) =>
                LET r == Val(c.searched)
                    q == Val(c.queryEmbedding)
                IN  /\ Len(r) = Min(Val(c.retriever).topK, Len(inMemoryStore))
                    /\ \A i \in 1..Len(r) :
                          \E k \in 1..Len(inMemoryStore) : r[i] = inMemoryStore[k]
                    /\ \A i, j \in 1..Len(r) :
                          i < j =>
                            CosineSimilarity(q, Val(r[i].embedding))
                              >= CosineSimilarity(q, Val(r[j].embedding))

\* The stored documents at least as similar to q as the threshold asks
SimilarEnough(store, q, threshold) ==
    {i \in 1..Len(store) :
        CosineSimilarity(q, Val(store[i].embedding)) >= threshold}

\* C9: with three documents stored in memory and a threshold that only
\* the document closest to the query reaches, retrieve returns exactly
\* that document.
C9_ScenarioReturnsClosestOnly ==
    \A p \in Procs :
        LET c == calls[p]
        IN  (/\ provider = "in-memory" /\ c.kind = "query"
             /\ IsSome(c.queryEmbedding) /\ IsSome(c.relevant)
             /\ Len(inMemoryStore) = 3
             /\ Cardinality(SimilarEnough(inMemoryStore, Val(c.queryEmbedding),
                                ConfiguredThreshold(c))) = 1) =>
                /\ Len(Val(c.relevant)) = 1
                /\ \A i \in SimilarEnough(inMemoryStore, Val(c.queryEmbedding),
                                          ConfiguredThreshold(c)) :
                      Val(c.relevant)[1].id = inMemoryStore[i].id

\* A stored document whose vector is the one the store's embedding model
\* gives its content: it was embedded by addDocuments
EmbeddedByStore(doc) ==
    doc.content # "" /\ doc.embedding = Some(EmbedOf(doc.content))

\* C10: every document that addDocuments embedded and stored in memory is
\* returned by a similaritySearch whose topK covers the store, with an
\* embedding and with a similarity annotation.
C10_RoundTripAnnotated ==
    \A p \in Procs :
        LET c == calls[p]
        IN  (/\ provider = "in-memory" /\ c.kind = "query"
             /\ IsSome(c.searched)
             /\ Val(c.retriever).topK >= Len(inMemoryStore)) =>
                \A k \in 1..Len(inMemoryStore) :
                    EmbeddedByStore(inMemoryStore[k]) =>
                        \E i \in 1..Len(Val(c.searched)) :
                            /\ Val(c.searched)[i].id = inMemoryStore[k].id
                            /\ IsSome(Val(c.searched)[i].embedding)
                            /\ IsSome(Val(c.searched)[i].similarity)

\* C11: in every query call whose retrieve returned a non-empty sequence D,
\* the Generator is invoked exactly once, with the prompt
\* promptTemplate(formatContext(D), query), and the response returned has
\* the Generator's text and metadata with sourceDocuments = D, same
\* documents in the same order.
C11_GeneratesOnceFromContext ==
    \A p \in Procs :
        LET c == calls[p]
        IN  (c.kind = "query" /\ IsSome(c.relevant) /\ Val(c.relevant) # << >>) =>
                /\ c.nGenerate = 1
                /\ c.prompt =
                       Some(PromptTemplate(FormatContext(Val(c.relevant)), c.query))
                /\ (c.pc = "done" /\ c.error = "none") =>
                       /\ IsSome(c.llmResponse) /\ IsSome(c.response)
                       /\ Val(c.response).text = Val(c.llmResponse).text
                       /\ Val(c.response).finishReason =
                              Val(c.llmResponse).finishReason
                       /\ Val(c.response).sourceDocuments = Val(c.relevant)

\* A finished query that answered from two retrieved documents
C11_Witness ==
    \E p \in Procs :
        LET c == calls[p]
        IN  /\ c.kind = "query" /\ c.pc = "done" /\ c.error = "none"
            /\ IsSome(c.relevant) /\ Len(Val(c.relevant)) = 2
            /\ Val(c.relevant)[1] # Val(c.relevant)[2]
            /\ IsSome(c.response)
            /\ Val(c.response).text = "answer"

\* C12: in every queryStream call whose retrieve returned an empty
\* sequence, the stream has yielded exactly one chunk, the fixed
\* no-information text, nothing follows it but the end of the stream, and
\* generateStream was not invoked.
C12_NoContextStreamsOneChunk ==
    \A p \in Procs :
        LET c == calls[p]
        IN  (c.kind = "stream" /\ c.relevant = Some(<< >>)) =>
                /\ c.pc \in {"yielded", "done"}
                /\ c.error = "none"
                /\ c.chunks = <<NoContextText>>
                /\ c.nGenerateStream = 0

\* A stream that has ended after its search returned documents, all of
\* them filtered out
C12_Witness ==
    \E p \in Procs :
        LET c == calls[p]
        IN  /\ c.kind = "stream" /\ c.pc = "done"
            /\ c.relevant = Some(<< >>)
            /\ IsSome(c.searched) /\ Val(c.searched) # << >>
            /\ Len(c.chunks) = 1

\* The parts of a string between the occurrences of the separator
RECURSIVE SplitOnSeparator(_)
SplitOnSeparator(str) ==
    IF \A i \in 1..Len(str) : str[i] # Separator
    THEN <<str>>
    ELSE LET i == CHOOSE j \in 1..Len(str) :
                      /\ str[j] = Separator
                      /\ \A k \in 1..(j - 1) : str[k] # Separator
         IN  <<SubSeq(str, 1, i - 1)>>
                 \o SplitOnSeparator(SubSeq(str, i + 1, Len(str)))

\* C13: formatContext returns the empty string for an empty input, and for
\* n >= 1 documents a string that splits on the separator into exactly
\* the n contents in input order (so n - 1 separators, and no document
\* dropped, deduplicated or truncated).
C13_FormatContextJoinsAll ==
    \A p \in Procs :
        LET c == calls[p]
        IN  (c.kind = "format" /\ c.pc = "done") =>
                /\ IsSome(c.context)
                /\ c.input = << >> => Val(c.context) = << >>
                /\ c.input # << >> =>
                       /\ Cardinality({i \in 1..Len(Val(c.context)) :
                              Val(c.context)[i] = Separator}) = Len(c.input) - 1
                       /\ SplitOnSeparator(Val(c.context)) =
                              [i \in 1..Len(c.input) |-> Str(c.input[i].content)]

\* Three documents formatted, two of them with the same content and one
\* with empty content
C13_Witness ==
    \E p \in Procs :
        LET c == calls[p]
        IN  /\ c.kind = "format" /\ c.pc = "done"
            /\ Len(c.input) = 3
            /\ c.input[1].content = c.input[3].content
            /\ c.input[1].content # ""
            /\ c.input[2].content = ""

\* formatContext applied to the empty sequence
C13_WitnessEmpty ==
    \E p \in Procs :
        calls[p].kind = "format" /\ calls[p].pc = "done" /\ calls[p].input = << >>

\* C14: when generateEmbeddings failed during an addDocuments call, the
\* call has failed with that error and the store holds exactly what it held
\* when the call began: no document of the batch was inserted, those that
\* arrived with an embedding included, and nothing was sent to the remote
\* collection.
C14_EmbeddingFailureInsertsNothing ==
    \A p \in Procs :
        LET c == calls[p]
        IN  (c.kind = "add" /\ c.error = "EmbeddingError") =>
                /\ c.pc = "done"
                /\ inMemoryStore = c.preStore
                /\ astraCollection = c.preCollection
                /\ c.nInsertMany = 0
                /\ c.nEmbed = 1

\* A failed batch of a document that arrived with an embedding, under an
\* id not stored yet, and a document that needed one
C14_Witness ==
    \E p \in Procs :
        LET c == calls[p]
        IN  /\ c.kind = "add" /\ c.error = "EmbeddingError"
            /\ Len(c.input) = 2
            /\ \E i, j \in 1..2 :
                  /\ IsSome(c.input[i].embedding)
                  /\ c.input[i].id \notin IdsOf(BackendStoreBefore(c))
                  /\ NeedsEmbedding(c.input[j])

\* C15: within one query call generateEmbeddings, similaritySearch and
\* generate are each invoked at most once, also when one of them failed; a
\* failed similaritySearch or generate makes the query fail with that same
\* error and without a response; and after a failed similaritySearch the
\* Generator is not invoked.
C15_NoRetries ==
    \A p \in Procs :
        LET c == calls[p]
        IN  c.kind = "query" =>
                /\ c.nEmbed <= 1 /\ Len(c.embedArgs) = c.nEmbed
                /\ c.nSearch <= 1
                /\ c.nGenerate <= 1
                /\ c.error = "StorageError" =>
                       /\ c.pc = "done" /\ c.response = None
                       /\ c.nSearch = 1 /\ c.nGenerate = 0
                /\ c.error = "GenerationError" =>
                       /\ c.pc = "done" /\ c.response = None
                       /\ c.nSearch = 1 /\ c.nGenerate = 1
                /\ c.error = "EmbeddingError" =>
                       /\ c.pc = "done" /\ c.nSearch = 0 /\ c.nGenerate = 0

\* A query whose similaritySearch failed on a collection that holds records
C15_Witness ==
    \E p \in Procs :
        LET c == calls[p]
        IN  /\ c.kind = "query" /\ c.pc = "done"
            /\ c.error = "StorageError"
            /\ astraCollection # << >>

\* A query whose Generator failed
C15_WitnessGenerate ==
    \E p \in Procs :
        calls[p].kind = "query" /\ calls[p].error = "GenerationError"

\* The ids an addDocuments call is to insert that the store did not hold
\* when the call began
FreshIds(c) ==
    {c.input[i].id : i \in {j \in 1..Len(c.input) :
        /\ HasEmbedding(c.input[j]) \/ HasContent(c.input[j])
        /\ c.input[j].id \notin IdsOf(c.preStore)}}

\* C16: on the in-memory backend a similaritySearch interleaved with an
\* addDocuments call never fails, every document it returned carries an
\* embedding and is held by the store, and when it returned the whole
\* store it shows either all or none of the ids that call newly inserts.
C16_SearchSeesWholeBatches ==
    LET r == calls["reader"]
        w == calls["writer"]
    IN  /\ r.error # "StorageError"
        /\ IsSome(r.searched) =>
               LET seen == Val(r.searched)
               IN  /\ \A i \in 1..Len(seen) :
                          /\ IsSome(seen[i].embedding)
                          /\ HasKey(inMemoryStore, seen[i].id)
                   /\ (w.kind = "add" /\ Len(seen) < Val(r.retriever).topK) =>
                          \/ FreshIds(w) \subseteq IdsOf(seen)
                          \/ FreshIds(w) \cap IdsOf(seen) = {}

\* A search taken while an addDocuments call that is to insert two new ids
\* awaits its embeddings: the search shows the store as it was before
C16_Witness ==
    LET r == calls["reader"]
        w == calls["writer"]
    IN  /\ w.kind = "add" /\ w.pc = "embedding"
        /\ Cardinality(FreshIds(w)) = 2
        /\ r.kind = "query" /\ r.pc = "searching"
        /\ r.searched = Some(w.preStore)

\* A search that shows both documents of a batch that was in flight
C16_WitnessAll ==
    LET r == calls["reader"]
        w == calls["writer"]
    IN  /\ w.kind = "add" /\ w.pc = "done" /\ w.error = "none"
        /\ Cardinality(FreshIds(w)) = 2
        /\ r.kind = "query" /\ r.pc = "searching"
        /\ IsSome(r.searched)
        /\ FreshIds(w) \subseteq IdsOf(Val(r.searched))

\* C17: no stored document of either backend carries a similarity, whatever
\* documents were inserted (documents that carry one included), and a
\* similarity a search returns is the one computed for the query of that
\* search, never one that came in with an inserted document.
C17_SimilarityNeverPersisted ==
    /\ \A i \in 1..Len(inMemoryStore) : inMemoryStore[i].similarity = None
    /\ \A i \in 1..Len(astraCollection) :
           "similarity" \notin DOMAIN astraCollection[i]
    /\ \A p \in Procs :
           LET c == calls[p]
           IN  (c.kind = "query" /\ IsSome(c.searched)) =>
                   \A i \in 1..Len(Val(c.searched)) :
                       LET doc == Val(c.searched)[i]
                       IN  IsSome(doc.similarity) =>
                               /\ provider = "datastax_astra"
                               /\ Val(doc.similarity) =
                                      CosineSimilarity(Val(c.queryEmbedding),
                                          EntryOf(astraCollection, doc.id).vector)

\* What both pipeline entry points owe after their call into the store:
\* exactly one VectorStore.addDocuments call, with these documents
FunnelledOnce(c, docs) ==
    /\ c.nAddDocuments = 1
    /\ c.addArgs = <<docs>>

\* Neither the Retriever nor the Generator has been invoked in this call
NoRetrieverNoGenerator(c) ==
    /\ c.nRetrieve = 0 /\ c.nSearch = 0
    /\ c.nGenerate = 0 /\ c.nGenerateStream = 0

\* C18 as stated: addDocuments(docs) has invoked VectorStore.addDocuments
\* exactly once with docs; every ingestData call invokes loadAndChunk once
\* and, once that has returned, VectorStore.addDocuments exactly once with
\* the loaded documents; neither invokes the Generator or the Retriever.
C18_BothFunnelIntoStore ==
    \A p \in Procs :
        LET c == calls[p]
        IN  /\ c.entry = "addDocuments" =>
                   FunnelledOnce(c, Val(c.args)) /\ NoRetrieverNoGenerator(c)
            /\ c.entry = "ingestData" =>
                   /\ c.nLoad = 1
                   /\ c.pc # "loading" =>
                          IsSome(c.loaded) /\ FunnelledOnce(c, Val(c.loaded))
                   /\ NoRetrieverNoGenerator(c)

\* C18, amended: as stated for addDocuments and for ingestData on a
\* pipeline that has an ingestion source; on a pipeline without one,
\* ingestData returns at once, having invoked neither loadAndChunk nor
\* VectorStore.addDocuments and leaving the store as it was.
C18_FunnelWhenSourceConfigured ==
    \A p \in Procs :
        LET c == calls[p]
        IN  /\ c.entry = "addDocuments" =>
                   FunnelledOnce(c, Val(c.args)) /\ NoRetrieverNoGenerator(c)
            /\ (c.entry = "ingestData" /\ IsSome(c.dataLoader)) =>
                   /\ c.nLoad = 1
                   /\ c.pc = "loading" => c.nAddDocuments = 0
                   /\ c.pc # "loading" =>
                          IsSome(c.loaded) /\ FunnelledOnce(c, Val(c.loaded))
                   /\ NoRetrieverNoGenerator(c)
            /\ (c.entry = "ingestData" /\ ~IsSome(c.dataLoader)) =>
                   /\ c.pc = "done" /\ c.error = "none"
                   /\ c.nLoad = 0 /\ c.nAddDocuments = 0
                   /\ inMemoryStore = c.preStore
                   /\ astraCollection = c.preCollection
                   /\ NoRetrieverNoGenerator(c)

\* An ingestData call that has stored the two loaded documents
C18_Witness ==
    \E p \in Procs :
        LET c == calls[p]
        IN  /\ c.entry = "ingestData" /\ IsSome(c.dataLoader)
            /\ c.pc = "done" /\ c.error = "none"
            /\ Len(Val(c.loaded)) = 2
            /\ IdsOf(Val(c.loaded)) \subseteq IdsOf(BackendStore)

\* A finished RAGPipeline.addDocuments call of two documents
C18_WitnessAdd ==
    \E p \in Procs :
        LET c == calls[p]
        IN  /\ c.entry = "addDocuments" /\ c.pc = "done" /\ c.error = "none"
            /\ Len(Val(c.args)) = 2

\* C19: every query call that completed returns a response whose text is a
\* non-empty string, with source documents (the Generator's answer) and
\* without (the fixed no-information text).
C19_ResponseTextNonEmpty ==
    \A p \in Procs :
        LET c == calls[p]
        IN  (c.kind = "query" /\ c.pc = "done" /\ c.error = "none") =>
                /\ IsSome(c.response)
                /\ Val(c.response).text # ""

\* C20: a failed scrape or file write does not stop scrapeToFiles: the URLs
\* are taken up in list order, each at most once, the two counters count
\* every URL that has been dealt with exactly once, and when the loop has
\* ended every URL was taken up and successCount + failureCount is the
\* number of URLs.
C20_EveryUrlCountedOnce ==
    \A p \in Procs :
        LET c == calls[p]
        IN  (c.kind = "scrape" /\ c.error = "none") =>
                /\ c.scraped = SubSeq(c.urls, 1, Len(c.scraped))
                /\ c.successCount = Len(c.saved)
                /\ c.pc \in {"scraping", "ensuringDir", "makingDir",
                            "checkingFile", "saving"} =>
                       c.successCount + c.failureCount = Len(c.scraped) - 1
                /\ c.pc = "delaying" =>
                       c.successCount + c.failureCount = Len(c.scraped)
                /\ c.pc = "done" =>
                       /\ c.scraped = c.urls
                       /\ c.successCount + c.failureCount = Len(c.urls)

\* A finished run over three URLs in which a scrape failed, then a file
\* write failed, then a page was saved
C20_Witness ==
    \E p \in Procs :
        LET c == calls[p]
        IN  /\ c.kind = "scrape" /\ c.pc = "done" /\ c.error = "none"
            /\ Len(c.urls) = 3
            /\ c.failureCount = 2 /\ c.successCount = 1
            /\ c.saved = <<c.urls[3]>>

IsPrefix(s, t) == Len(s) <= Len(t) /\ s = SubSeq(t, 1, Len(s))

StagesGenerating ==
    <<"Idle", "Embedding", "Searching", "Filtering", "PromptBuilding",
      "Generating", "Done">>

StagesNoContext ==
    <<"Idle", "Embedding", "Searching", "Filtering", "NoContext", "Done">>

StagesNoEmbedding == <<"Idle", "Embedding", "NoContext", "Done">>

StagesSeen(c) == {c.stages[k] : k \in 1..Len(c.stages)}

\* The stage a query is in agrees with what it has called and awaits
StagesMatchCalls(c) ==
    /\ ("Searching" \in StagesSeen(c)) <=> (c.nSearch = 1)
    /\ ("Generating" \in StagesSeen(c)) <=> (c.nGenerate = 1)
    /\ c.pc = "embedding" => c.stages[Len(c.stages)] = "Embedding"
    /\ c.pc = "searching" => c.stages[Len(c.stages)] = "Searching"
    /\ c.pc = "generating" => c.stages[Len(c.stages)] = "Generating"
    /\ (c.pc = "done" /\ c.error = "none") => c.stages[Len(c.stages)] = "Done"

\* C21 as stated: the stages of a query are, in this order and without
\* skip or repeat, Idle, Embedding, Searching, Filtering, PromptBuilding,
\* Generating, Done, or the early exit Filtering, NoContext, Done; so
\* NoContext is entered only after a similarity search has run.
C21_StagesOnlyThroughFiltering ==
    \A p \in Procs :
        LET c == calls[p]
        IN  c.kind = "query" =>
                /\ \/ IsPrefix(c.stages, StagesGenerating)
                   \/ IsPrefix(c.stages, StagesNoContext)
                /\ StagesMatchCalls(c)
                /\ "NoContext" \in StagesSeen(c) => c.nSearch = 1

C21_StagesInvariant ==
    \A p \in Procs :
        LET c == calls[p]
        IN  c.kind = "query" =>
                /\ \/ IsPrefix(c.stages, StagesGenerating)
                   \/ IsPrefix(c.stages, StagesNoContext)
                   \/ IsPrefix(c.stages, StagesNoEmbedding)
                /\ StagesMatchCalls(c)
                /\ c.stages = StagesNoEmbedding =>
                       c.nSearch = 0 /\ c.queryEmbedding = None
                /\ c.error # "none" => c.pc = "done"

\* C21, amended: the stages of a query are, in order and without skip or
\* repeat, a prefix of Idle, Embedding, Searching, Filtering,
\* PromptBuilding, Generating, Done, of the early exit through Filtering,
\* NoContext, Done, or of Idle, Embedding, NoContext, Done, the exit taken
\* without any search when the embedding result is empty; a collaborator's
\* failure ends the call at the stage reached; and when the collaborators
\* respond every query is eventually finished.
C21_StagesInOrder ==
    /\ []C21_StagesInvariant
    /\ \A p \in Procs :
           (calls[p].kind = "query") ~> (calls[p].pc = "done")

\* A finished query that went through every stage
C21_Witness ==
    \E p \in Procs :
        calls[p].kind = "query" /\ calls[p].stages = StagesGenerating

\* A finished query that left through NoContext without a search
C21_WitnessNoEmbedding ==
    \E p \in Procs :
        calls[p].kind = "query" /\ calls[p].stages = StagesNoEmbedding

\* The query call that has reached the same point as the stream call c:
\* same pipeline, same query, same query embedding, awaiting the search
AsQuery(c) ==
    [c EXCEPT !.kind = "query", !.pc = "searching",
              !.stages = <<"Idle", "Embedding", "Searching">>,
              !.searched = None, !.relevant = None,
              !.context = None, !.prompt = None,
              !.chunks = << >>, !.llmChunks = << >>,
              !.nGenerateStream = 0, !.error = "none"]

\* C22: for the same store contents and query, queryStream has invoked
\* generateStream if and only if query invokes generate, with the same
\* prompt; it has yielded exactly the chunks the Generator produced, in
\* the Generator's order; it ends when the Generator's stream ends, and a
\* failure of the Generator's stream is the failure of the stream.
C22_StreamMirrorsQuery ==
    \A p \in Procs :
        LET c == calls[p]
        IN  c.kind = "stream" =>
                /\ c.nGenerate = 0 /\ c.nGenerateStream <= 1
                /\ (IsSome(c.searched) /\ c.pc # "searching") =>
                       LET q == AfterSearch(AsQuery(c), Val(c.searched))
                       IN  /\ (c.nGenerateStream = 1) <=> (q.nGenerate = 1)
                           /\ c.prompt = q.prompt
                           /\ c.relevant = q.relevant
                /\ (c.pc = "done" /\ c.searched = None) => c.nGenerateStream = 0
                /\ c.nGenerateStream = 1 => c.chunks = c.llmChunks
                /\ c.nGenerateStream = 0 => c.llmChunks = << >>
                /\ c.error = "GenerationError" =>
                       c.pc = "done" /\ c.nGenerateStream = 1

\* A stream that ended after passing on two chunks, one of them empty
C22_Witness ==
    \E p \in Procs :
        LET c == calls[p]
        IN  /\ c.kind = "stream" /\ c.pc = "done" /\ c.error = "none"
            /\ c.nGenerateStream = 1
            /\ Len(c.llmChunks) = 2
            /\ \E k \in 1..2 : c.llmChunks[k] = ""
            /\ \E k \in 1..2 : c.llmChunks[k] # ""

\* A stream whose Generator failed after one chunk
C22_WitnessFailed ==
    \E p \in Procs :
        LET c == calls[p]
        IN  /\ c.kind = "stream" /\ c.error = "GenerationError"
            /\ Len(c.chunks) = 1

\* s can be obtained from t by deleting elements of t
RECURSIVE IsSubsequence(_, _)
IsSubsequence(s, t) ==
    IF s = << >> THEN TRUE
    ELSE IF t = << >> THEN FALSE
    ELSE IF Head(s) = Head(t) THEN IsSubsequence(Tail(s), Tail(t))
    ELSE IsSubsequence(s, Tail(t))

\* C23: what retrieve returns is an order-preserving subsequence of what
\* similaritySearch returned in the same call: no document the search did
\* not return, none more often than the search returned it, the kept
\* documents in their relative order, and never more than topK of them.
C23_RetrieveIsSubsequence ==
    \A p \in Procs :
        LET c == calls[p]
        IN  (c.kind = "query" /\ IsSome(c.relevant) /\ IsSome(c.searched)) =>
                /\ IsSubsequence(Val(c.relevant), Val(c.searched))
                /\ Len(Val(c.relevant)) <= Val(c.retriever).topK
                /\ Len(Val(c.searched)) <= Val(c.retriever).topK

\* A retrieve that kept two different documents of the search result
C23_Witness ==
    \E p \in Procs :
        LET c == calls[p]
        IN  /\ c.kind = "query" /\ IsSome(c.relevant) /\ IsSome(c.searched)
            /\ Len(Val(c.relevant)) = 2
            /\ Val(c.relevant)[1] # Val(c.relevant)[2]

\* A retrieve that dropped one of two documents the search returned
C23_WitnessDropped ==
    \E p \in Procs :
        LET c == calls[p]
        IN  /\ c.kind = "query" /\ IsSome(c.relevant) /\ IsSome(c.searched)
            /\ Len(Val(c.searched)) = 2
            /\ Len(Val(c.relevant)) = 1

\* The positions of a batch whose documents arrived without an embedding
\* and with non-empty content
LackingPositions(input) ==
    {i \in 1..Len(input) : input[i].embedding = None /\ input[i].content # ""}

\* C24: once addDocuments has embedded a batch, the i-th document in input
\* order among those that arrived without an embedding and with content
\* carries the i-th vector generateEmbeddings returned, every document
\* that arrived with an embedding carries that same embedding, and nothing
\* else of any document has changed.
C24_VectorsAssignedInInputOrder ==
    \A p \in Procs :
        LET c == calls[p]
        IN  (c.kind = "add" /\ IsSome(c.embedResult)) =>
                /\ Len(c.documents) = Len(c.input)
                /\ Len(Val(c.embedResult)) = Cardinality(LackingPositions(c.input))
                /\ \A i \in 1..Len(c.input) :
                       /\ c.documents[i].id = c.input[i].id
                       /\ c.documents[i].content = c.input[i].content
                       /\ IsSome(c.input[i].embedding) =>
                              c.documents[i].embedding = c.input[i].embedding
                       /\ i \in LackingPositions(c.input) =>
                              c.documents[i].embedding =
                                  Some(Val(c.embedResult)[Cardinality(
                                      {j \in LackingPositions(c.input) : j <= i})])

\* A batch of a document that arrived with an embedding followed by one
\* that was embedded, the two vectors differing
C24_Witness ==
    \E p \in Procs :
        LET c == calls[p]
        IN  /\ c.kind = "add" /\ IsSome(c.embedResult)
            /\ Len(c.input) = 2
            /\ IsSome(c.input[1].embedding)
            /\ 2 \in LackingPositions(c.input)
            /\ c.documents[2].embedding # c.documents[1].embedding

\* A batch of two documents embedded with different vectors
C24_WitnessTwo ==
    \E p \in Procs :
        LET c == calls[p]
        IN  /\ c.kind = "add" /\ IsSome(c.embedResult)
            /\ Len(Val(c.embedResult)) = 2
            /\ Val(c.embedResult)[1] # Val(c.embedResult)[2]

\* C25: every document the in-memory store holds carries an embedding,
\* whatever batches were added: documents with or without content, with
\* or without a vector of their own.
C25_StoredDocumentsHaveEmbedding ==
    \A i \in 1..Len(inMemoryStore) : inMemoryStore[i].embedding # None

\* The in-memory store after a finished batch of a document that was
\* stored and a document with neither content nor vector, which was not
C25_Witness ==
    \E p \in Procs :
        LET c == calls[p]
        IN  /\ provider = "in-memory"
            /\ c.kind = "add" /\ c.pc = "done" /\ c.error = "none"
            /\ Len(c.input) = 2
            /\ \E i, j \in 1..2 :
                  /\ Unembeddable(c.input[i])
                  /\ c.input[i].id \notin IdsOf(inMemoryStore)
                  /\ c.input[j].id \in IdsOf(inMemoryStore)
                  /\ c.input[j].id \notin IdsOf(c.preStore)

\* What similaritySearch may return to the call c when it runs alone
\* against the store as it is
AloneSearchResults(c) ==
    LET r == PipelineRetriever(Val(c.config))
    IN  IF provider = "in-memory"
        THEN {InMemorySearch(inMemoryStore, EmbedOf(c.query), r.topK)}
        ELSE {AstraResultDocs(records, EmbedOf(c.query), withVector) :
                  records \in AstraFind(astraCollection, EmbedOf(c.query), r.topK),
                  withVector \in BOOLEAN}

C26_SameAsAlone ==
    \A p \in DOMAIN calls :
        LET c == calls[p]
        IN  c.kind \in {"query", "stream"} =>
                /\ c.retriever = Some(PipelineRetriever(Val(c.config)))
                /\ IsSome(c.searched) =>
                       Val(c.searched) \in AloneSearchResults(c)
                /\ (IsSome(c.searched) /\ IsSome(c.relevant)) =>
                       c.relevant = Some(FilterRelevant(Val(c.searched),
                           PipelineRetriever(Val(c.config)).similarityThreshold))
                /\ IsSome(c.prompt) =>
                       c.prompt = Some(PromptTemplate(
                                      FormatContext(Val(c.relevant)), c.query))
                /\ (c.kind = "query" /\ c.pc = "done" /\ c.error = "none") =>
                       Val(c.response).sourceDocuments = Val(c.relevant)

\* C26: no step of retrieve, query or queryStream changes the store
\* contents or the backend, the Retriever of a call keeps the topK and
\* threshold its pipeline was built with, and so each of two interleaved
\* calls searches, filters, prompts and answers as it would alone against
\* the same store.
C26_QueriesAreReadOnly ==
    /\ [][UNCHANGED <<provider, inMemoryStore, astraCollection>>]_vars
    /\ []C26_SameAsAlone

\* Two calls in flight at once on a store of two documents: one has its
\* search result and awaits the Generator, the other awaits its search
\* for a different query
C26_Witness ==
    /\ Len(inMemoryStore) + Len(astraCollection) = 2
    /\ calls["q1"].pc = "generating"
    /\ calls["q2"].pc = "searching"
    /\ calls["q1"].query # calls["q2"].query

----------------------------------------------------------------------------
(* VectorStore construction and the backend fields                         *)

\* In SpecConstruct the fields this.inMemoryStore and this.astraCollection
\* are optional values, None for undefined and Some(s) for a map or a
\* collection holding s, and provider is "unconstructed" while no
\* constructor call has returned an object.

ProviderTags == {"in-memory", "datastax_astra", "pinecone"}

ConstructDocs == {d \in DocPool : d.content # ""}

\* new VectorStore(config): the fields the constructor leaves, or the error
\* it throws; clientThrows says whether setting up the DataAPIClient throws
NewVectorStoreMapOnly(tag, clientThrows) ==
    IF tag \in {"in-memory", "datastax_astra"}
    THEN [error |-> "none", inMemoryStore |-> Some(<< >>),
          astraCollection |-> None]
    ELSE [error |-> "Unsupported vector store provider",
          inMemoryStore |-> None, astraCollection |-> None]
NewVectorStore(tag, clientThrows) ==
    IF tag = "in-memory"
    THEN [error |-> "none", inMemoryStore |-> Some(<< >>),
          astraCollection |-> None]
    ELSE IF tag = "datastax_astra"
    THEN IF clientThrows
         THEN [error |-> "AstraDB client initialization failed",
               inMemoryStore |-> None, astraCollection |-> None]
         ELSE [error |-> "none", inMemoryStore |-> None,
               astraCollection |-> Some(<< >>)]
    ELSE [error |-> "Unsupported vector store provider",
          inMemoryStore |-> None, astraCollection |-> None]

\* A caller evaluates new VectorStore({provider: tag, ...})
Construct(p, tag, clientThrows) ==
    /\ CanStart(p)
    /\ provider = "unconstructed"
    /\ LET made == NewVectorStore(tag, clientThrows)
           c == [IdleCall EXCEPT !.kind = "construct", !.args = Some(tag)]
       IN  IF made.error # "none"
           THEN /\ calls' = [calls EXCEPT ![p] = Fail(c, made.error)]
                /\ UNCHANGED <<provider, inMemoryStore, astraCollection>>
           ELSE /\ calls' = [calls EXCEPT ![p] = Finish(c)]
                /\ provider' = tag
                /\ inMemoryStore' = made.inMemoryStore
                /\ astraCollection' = made.astraCollection

\* vector-store.ts:156-186, the switch of addDocuments with its guards
GuardedAddStore(p, c) ==
    IF provider = "in-memory"
    THEN IF ~IsSome(inMemoryStore)
         THEN /\ calls' = [calls EXCEPT ![p] =
                     Fail(c, "In-memory store not initialized.")]
              /\ UNCHANGED <<inMemoryStore, astraCollection>>
         ELSE /\ inMemoryStore' =
                     Some(InsertAll(Val(inMemoryStore), c.documents))
              /\ calls' = [calls EXCEPT ![p] = Finish(c)]
              /\ UNCHANGED astraCollection
    ELSE IF provider = "datastax_astra"
    THEN /\ calls' = [calls EXCEPT ![p] =
                IF ~IsSome(astraCollection)
                THEN Fail(c, "AstraDB collection not initialized.")
                ELSE IF AstraDocs(c.documents) # << >>
                THEN [c EXCEPT !.pc = "inserting", !.nInsertMany = @ + 1]
                ELSE Finish(c)]
         /\ UNCHANGED <<inMemoryStore, astraCollection>>
    ELSE /\ calls' = [calls EXCEPT ![p] =
                Fail(c, "Unsupported provider for addDocuments")]
         /\ UNCHANGED <<inMemoryStore, astraCollection>>

\* A caller invokes addDocuments(docs) on the constructed object
GuardedAddStart(p, docs) ==
    /\ CanStart(p)
    /\ provider # "unconstructed"
    /\ LET c == [IdleCall EXCEPT !.kind = "add", !.input = docs,
                                 !.documents = docs]
       IN  IF Len(docs) = 0
           THEN /\ calls' = [calls EXCEPT ![p] = Finish(c)]
                /\ UNCHANGED <<inMemoryStore, astraCollection>>
           ELSE IF Len(DocsToEmbed(docs)) > 0
           THEN /\ calls' = [calls EXCEPT ![p] =
                       [c EXCEPT !.pc = "embedding", !.nEmbed = @ + 1]]
                /\ UNCHANGED <<inMemoryStore, astraCollection>>
           ELSE GuardedAddStore(p, c)
    /\ UNCHANGED provider

\* await generateEmbeddings(contents) resolves
GuardedAddEmbedded(p) ==
    /\ calls[p].kind = "add"
    /\ calls[p].pc = "embedding"
    /\ LET c == calls[p]
           embeddings == GenerateEmbeddings(ContentsOf(DocsToEmbed(c.documents)))
       IN  GuardedAddStore(p, [c EXCEPT !.documents =
                                   AssignEmbeddings(@, embeddings)])
    /\ UNCHANGED provider

\* await generateEmbeddings(contents) rejects
GuardedAddEmbedFailed(p) ==
    /\ calls[p].kind = "add"
    /\ calls[p].pc = "embedding"
    /\ calls' = [calls EXCEPT ![p] = Fail(@, "EmbeddingError")]
    /\ UNCHANGED <<provider, inMemoryStore, astraCollection>>

\* await this.astraCollection.insertMany(astraDocs) resolves
GuardedAddInserted(p) ==
    /\ calls[p].kind = "add"
    /\ calls[p].pc = "inserting"
    /\ astraCollection' =
           Some(AstraInsertMany(Val(astraCollection),
                                AstraDocs(calls[p].documents)))
    /\ calls' = [calls EXCEPT ![p] = Finish(@)]
    /\ UNCHANGED <<provider, inMemoryStore>>

\* await this.astraCollection.insertMany(astraDocs) rejects
GuardedAddInsertFailed(p) ==
    /\ calls[p].kind = "add"
    /\ calls[p].pc = "inserting"
    /\ calls' = [calls EXCEPT ![p] = Fail(@, "StorageError")]
    /\ UNCHANGED <<provider, inMemoryStore, astraCollection>>

\* A caller invokes similaritySearch(queryEmbedding, topK):
\* vector-store.ts:199-248, the switch with its guards
GuardedSearchStart(p, queryEmbedding, topK) ==
    /\ CanStart(p)
    /\ provider # "unconstructed"
    /\ LET c == [IdleCall EXCEPT !.kind = "search",
                                 !.queryEmbedding = Some(queryEmbedding),
                                 !.retriever =
                                     Some([topK |-> topK,
                                           similarityThreshold |-> 0]),
                                 !.nSearch = 1]
       IN  calls' = [calls EXCEPT ![p] =
               IF provider = "in-memory"
               THEN IF ~IsSome(inMemoryStore)
                    THEN Fail(c, "In-memory store not initialized.")
                    ELSE Finish([c EXCEPT !.searched =
                             Some(InMemorySearch(Val(inMemoryStore),
                                                 queryEmbedding, topK))])
               ELSE IF provider = "datastax_astra"
               THEN IF ~IsSome(astraCollection)
                    THEN Fail(c, "AstraDB collection not initialized.")
                    ELSE [c EXCEPT !.pc = "searching"]
               ELSE Fail(c, "Unsupported provider for similaritySearch")]
    /\ UNCHANGED <<provider, inMemoryStore, astraCollection>>

\* await cursor.toArray() resolves
GuardedSearchFound(p) ==
    /\ calls[p].kind = "search"
    /\ calls[p].pc = "searching"
    /\ \E records \in AstraFind(Val(astraCollection),
                                Val(calls[p].queryEmbedding),
                                Val(calls[p].retriever).topK),
          withVector \in BOOLEAN :
           calls' = [calls EXCEPT ![p] =
               Finish([@ EXCEPT !.searched =
                   Some(AstraResultDocs(records, Val(calls[p].queryEmbedding),
                                        withVector))])]
    /\ UNCHANGED <<provider, inMemoryStore, astraCollection>>

\* await cursor.toArray() rejects
GuardedSearchFailed(p) ==
    /\ calls[p].kind = "search"
    /\ calls[p].pc = "searching"
    /\ calls' = [calls EXCEPT ![p] = Fail(@, "StorageError")]
    /\ UNCHANGED <<provider, inMemoryStore, astraCollection>>

InitConstruct ==
    /\ provider = "unconstructed"
    /\ inMemoryStore = None
    /\ astraCollection = None
    /\ calls = [p \in Procs |-> IdleCall]

NextConstruct ==
    \E p \in Procs :
        \/ \E tag \in ProviderTags, clientThrows \in BOOLEAN :
               Construct(p, tag, clientThrows)
        \/ \E docs \in SeqUpTo(ConstructDocs, MaxBatch) :
               GuardedAddStart(p, docs)
        \/ GuardedAddEmbedded(p)
        \/ GuardedAddEmbedFailed(p)
        \/ GuardedAddInserted(p)
        \/ GuardedAddInsertFailed(p)
        \/ \E q \in Queries, topK \in 1..2 :
               GuardedSearchStart(p, EmbedOf(q), topK)
        \/ GuardedSearchFound(p)
        \/ GuardedSearchFailed(p)
        \/ Return(p)

SpecConstruct == InitConstruct /\ [][NextConstruct]_vars

DispatchErrors ==
    {"In-memory store not initialized.",
     "AstraDB collection not initialized.",
     "Unsupported provider for addDocuments",
     "Unsupported provider for similaritySearch"}

C27_BackendMatchesProvider ==
    /\ provider \in {"unconstructed", "in-memory", "datastax_astra"}
    /\ provider = "unconstructed" =>
           inMemoryStore = None /\ astraCollection = None
    /\ provider = "in-memory" =>
           IsSome(inMemoryStore) /\ astraCollection = None
    /\ provider = "datastax_astra" =>
           IsSome(astraCollection) /\ inMemoryStore = None
    /\ \A p \in Procs :
        /\ calls[p].error \notin DispatchErrors
        /\ (calls[p].kind = "construct" /\ calls[p].pc = "done"
              /\ Val(calls[p].args) \notin {"in-memory", "datastax_astra"})
           => /\ calls[p].error = "Unsupported vector store provider"
              /\ provider = "unconstructed"

\* C27: constructing a VectorStore with an unrecognized provider fails; a
\* constructed store keeps its provider tag for ever; an in-memory store
\* always has its map and no collection, a remote store its collection and
\* no map; and no addDocuments or similaritySearch call ends with a
\* 'not initialized' or 'Unsupported provider' error.
C27_ProviderSelectsBackend ==
    /\ []C27_BackendMatchesProvider
    /\ [][provider # "unconstructed" => provider' = provider]_vars

C27_Witness ==
    /\ provider = "datastax_astra"
    /\ Len(Val(astraCollection)) = 2
    /\ \E p \in Procs :
        /\ calls[p].kind = "search"
        /\ calls[p].pc = "done"
        /\ calls[p].error = "none"
        /\ Len(Val(calls[p].searched)) = 2

C27_WitnessInMemory ==
    /\ provider = "in-memory"
    /\ Len(Val(inMemoryStore)) = 2
    /\ \E p \in Procs : calls[p].kind = "add" /\ calls[p].pc = "done"

C27_WitnessUnrecognized ==
    \E p \in Procs :
        /\ calls[p].kind = "construct"
        /\ calls[p].pc = "done"
        /\ Val(calls[p].args) = "pinecone"
        /\ calls[p].error = "Unsupported vector store provider"

----------------------------------------------------------------------------
(* addDocuments on the remote backend, documents with metadata             *)

Metadata == {None, Some([source |-> "https://a.example/x"])}

\* The documents handed to the remote store: those with id "A" carry
\* metadata, those with id "B" carry none
RemoteDocs ==
    {d \in [id : Ids, content : {"", "tA"}, embedding : SuppliedEmbeddings,
            similarity : {None}, metadata : Metadata] :
        d.metadata # None <=> d.id = "A"}

InitRemote ==
    /\ provider = "datastax_astra"
    /\ inMemoryStore = << >>
    /\ astraCollection = << >>
    /\ calls = [p \in Procs |-> IdleCall]

NextRemote ==
    \E p \in Procs :
        \/ \E docs \in SeqUpTo(RemoteDocs, MaxBatch) : AddStart(p, docs)
        \/ AddEmbedded(p)
        \/ AddEmbedFailed(p)
        \/ AddInserted(p)
        \/ AddInsertFailed(p)
        \/ Return(p)

SpecRemote == InitRemote /\ [][NextRemote]_vars

\* The positions of the batch whose document carries an embedding when the
\* store is reached
EmbeddedPositions(documents) ==
    {i \in 1..Len(documents) : documents[i].embedding # None}

\* The k-th smallest member of a set of positions
KthPosition(S, k) ==
    CHOOSE i \in S : Cardinality({j \in S : j <= i}) = k

\* records are the documents `documents` of `input` that carry an
\* embedding, in input order, each with the id, content and metadata that
\* was handed in and with its vector
IsBulkOf(records, input, documents) ==
    LET S == EmbeddedPositions(documents)
    IN  /\ Len(records) = Cardinality(S)
        /\ \A k \in 1..Len(records) :
            LET i == KthPosition(S, k)
            IN  /\ records[k].id = input[i].id
                /\ records[k].text = input[i].content
                /\ records[k].vector = documents[i].embedding[1]
                /\ IF input[i].metadata = None
                   THEN "metadata" \notin DOMAIN records[k]
                   ELSE /\ "metadata" \in DOMAIN records[k]
                        /\ records[k].metadata = input[i].metadata[1]

\* C28: on the remote backend an addDocuments call issues at most one
\* insertMany; the one it issues holds exactly the documents of the batch
\* that carry an embedding, in input order, each with its id, content,
\* vector and unchanged metadata; it issues none when no document carries
\* an embedding; and when the insertMany fails the call fails with that
\* error, having made no second attempt and written nothing.
C28_OneBulkInsert ==
    \A p \in Procs :
        LET c == calls[p]
        IN  (c.kind = "add" /\ c.pc \in {"inserting", "done"}) =>
              /\ c.nInsertMany <= 1
              /\ Len(c.insertArgs) = c.nInsertMany
              /\ (c.pc = "done" /\ c.error = "none") =>
                    (c.nInsertMany = 0 <=>
                        EmbeddedPositions(c.documents) = {})
              /\ c.nInsertMany = 1 =>
                    /\ EmbeddedPositions(c.documents) # {}
                    /\ IsBulkOf(c.insertArgs[1], c.input, c.documents)
              /\ c.error = "EmbeddingError" => c.nInsertMany = 0
              /\ c.error = "StorageError" =>
                    /\ c.nInsertMany = 1
                    /\ astraCollection = c.preCollection

C28_Witness ==
    \E p \in Procs :
        /\ calls[p].kind = "add"
        /\ calls[p].pc = "done"
        /\ calls[p].error = "none"
        /\ Len(calls[p].input) = 2
        /\ calls[p].input[1].embedding = None
        /\ calls[p].input[1].content = ""
        /\ calls[p].input[2].metadata # None
        /\ calls[p].nInsertMany = 1
        /\ Len(astraCollection) = 2

C28_WitnessFailed ==
    \E p \in Procs :
        /\ calls[p].kind = "add"
        /\ calls[p].pc = "done"
        /\ calls[p].error = "StorageError"
        /\ Len(calls[p].insertArgs[1]) = 2

C28_WitnessNone ==
    \E p \in Procs :
        /\ calls[p].kind = "add"
        /\ calls[p].pc = "done"
        /\ calls[p].error = "none"
        /\ Len(calls[p].input) = 2
        /\ calls[p].nInsertMany = 0

----------------------------------------------------------------------------
(* getUrlsToProcess: what is claimed of it                                 *)

\* Whether URLS_TO_PROCESS names at least one URL
EnvProvides(env) == IsSome(env) /\ EnvUrls(Val(env)) # << >>

\* C29: getUrlsToProcess returns the URLs of the link files whenever there
\* are any; falls back to those of URLS_TO_PROCESS whenever the link files
\* yield none, the links directory being unreadable included; fails only
\* when neither source provides a URL; and never returns an empty list.
C29_FilesThenEnvNeverEmpty ==
    \A p \in Procs :
        LET c == calls[p]
            env == Val(c.args)
            fileUrls == IF c.error = "FsError" THEN << >> ELSE Val(c.loaded)
        IN  (c.kind = "getUrls" /\ c.pc = "done") =>
              /\ fileUrls # << >> => c.error = "none" /\ c.urls = fileUrls
              /\ (fileUrls = << >> /\ EnvProvides(env)) =>
                     c.error = "none" /\ c.urls = EnvUrls(Val(env))
              /\ c.error # "none" => fileUrls = << >> /\ ~EnvProvides(env)
              /\ c.error = "none" => c.urls # << >>

\* What the code does do: a rejected read fails the call whatever
\* URLS_TO_PROCESS holds, and a URLS_TO_PROCESS that is set, not empty and
\* names no URL is returned as the empty list
C29_AsCoded ==
    \A p \in Procs :
        LET c == calls[p]
            env == Val(c.args)
        IN  (c.kind = "getUrls" /\ c.pc = "done" /\ c.error # "FsError") =>
              /\ Val(c.loaded) # << >> =>
                     c.error = "none" /\ c.urls = Val(c.loaded)
              /\ (Val(c.loaded) = << >> /\ EnvProvides(env)) =>
                     c.error = "none" /\ c.urls = EnvUrls(Val(env))
              /\ c.error # "none" =>
                     Val(c.loaded) = << >> /\ (env = None \/ env = Some(<< >>))

C29_ReachedUnreadable ==
    \E p \in Procs :
        /\ calls[p].kind = "getUrls" /\ calls[p].pc = "done"
        /\ calls[p].error = "FsError"
        /\ calls[p].nLoad = 1
        /\ EnvProvides(Val(calls[p].args))

C29_ReachedEmptyList ==
    \E p \in Procs :
        /\ calls[p].kind = "getUrls" /\ calls[p].pc = "done"
        /\ calls[p].error = "none"
        /\ calls[p].urls = << >>

----------------------------------------------------------------------------
(* Two overlapping addDocuments calls on one in-memory store               *)

WriterProcs == {"w1", "w2"}

\* A caller invokes addDocuments(docs); ticket records how many calls were
\* suspended at that moment, plus one
WriterStart(p, docs) ==
    /\ CanStart(p)
    /\ AddDocumentsFrom(p,
           [IdleCall EXCEPT !.ticket =
               1 + Cardinality({q \in WriterProcs :
                                   calls[q].pc = "embedding"})],
           docs)
    /\ UNCHANGED provider

\* A fresh in-memory store on which each of two callers issues one call
InitWriters ==
    /\ provider = "in-memory"
    /\ inMemoryStore = << >>
    /\ astraCollection = << >>
    /\ calls = [p \in WriterProcs |-> IdleCall]

NextWriters ==
    \E p \in WriterProcs :
        \/ \E docs \in SeqUpTo(StreamDocs, MaxBatch) : WriterStart(p, docs)
        \/ AddEmbedded(p)
        \/ AddEmbedFailed(p)

SpecWriters == InitWriters /\ [][NextWriters]_vars

\* The entries of the store under the key id
EntriesOf(store, id) == {i \in 1..Len(store) : store[i].id = id}

\* The document a batch leaves under the key id: its last one with that id
LastWithId(documents, id) ==
    documents[CHOOSE i \in 1..Len(documents) :
                  /\ documents[i].id = id
                  /\ \A j \in (i + 1)..Len(documents) : documents[j].id # id]

BatchIds(documents) == {documents[i].id : i \in 1..Len(documents)}

\* The step in which call p's embedding batch completes and its insert
\* loop runs: afterwards each id of its batch has exactly one entry, the
\* document of this call, and the entries under other ids are as before
InsertStepOverwrites(p) ==
    (calls[p].pc = "embedding" /\ calls'[p].pc = "done"
        /\ calls'[p].error = "none") =>
      LET documents == calls'[p].documents
      IN  /\ \A id \in BatchIds(documents) :
               /\ Cardinality(EntriesOf(inMemoryStore', id)) = 1
               /\ \E i \in EntriesOf(inMemoryStore', id) :
                    /\ inMemoryStore'[i] = LastWithId(documents, id)
                    /\ inMemoryStore'[i].content =
                           LastWithId(calls[p].input, id).content
          /\ \A i \in 1..Len(inMemoryStore) :
               inMemoryStore[i].id \notin BatchIds(documents) =>
                   \E j \in 1..Len(inMemoryStore') :
                       inMemoryStore'[j] = inMemoryStore[i]

\* Both calls have ended well and overlapped, and nothing was stored
\* before them: every id of either batch has exactly one entry, which is
\* the document of one of the two calls
OverlappedWritersKeepAll ==
    (/\ \A p \in WriterProcs :
           calls[p].pc = "done" /\ calls[p].error = "none"
     /\ \E p \in WriterProcs : calls[p].ticket = 2
     /\ \A p \in WriterProcs : calls[p].preStore = << >>) =>
        \A p \in WriterProcs :
            \A id \in BatchIds(calls[p].documents) :
                /\ Cardinality(EntriesOf(inMemoryStore, id)) = 1
                /\ \E i \in EntriesOf(inMemoryStore, id),
                     q \in WriterProcs :
                       /\ id \in BatchIds(calls[q].documents)
                       /\ inMemoryStore[i] = LastWithId(calls[q].documents, id)
                /\ (\A q \in WriterProcs \ {p} :
                        id \notin BatchIds(calls[q].documents)) =>
                     \E i \in EntriesOf(inMemoryStore, id) :
                         inMemoryStore[i] = LastWithId(calls[p].documents, id)

\* C30: when two addDocuments calls on one in-memory store overlap and both
\* carry a document with the same id, the store ends with exactly one entry
\* for that id, the document of the call whose insert step ran last, which
\* may be the call issued first; the documents either call carries under
\* other ids are all stored.
C30_LastInsertWins ==
    /\ []OverlappedWritersKeepAll
    /\ [][\A p \in WriterProcs : InsertStepOverwrites(p)]_vars

\* The call issued first inserted last: its document is the one kept
C30_Witness ==
    /\ calls["w1"].pc = "done" /\ calls["w1"].error = "none"
    /\ calls["w2"].pc = "done" /\ calls["w2"].error = "none"
    /\ calls["w1"].ticket = 1 /\ calls["w2"].ticket = 2
    /\ calls["w1"].preStore = << >> /\ calls["w2"].preStore = << >>
    /\ Len(calls["w1"].documents) = 2 /\ Len(calls["w2"].documents) = 2
    /\ calls["w1"].documents[1].id = "A" /\ calls["w1"].documents[2].id = "B"
    /\ calls["w2"].documents[1].id = "A" /\ calls["w2"].documents[2].id = "A"
    /\ calls["w1"].documents[1].content = "tA"
    /\ calls["w2"].documents[2].content = "tB"
    /\ inMemoryStore = <<calls["w1"].documents[1], calls["w1"].documents[2]>>

====
